---- MODULE Spec2Model ----
(***************************************************************************)
(* Model of the instrumentation driver (InstrGenerator) of the whamm /     *)
(* dtrace-style instrumentation DSL: the driver walks a behavior tree and  *)
(* calls an emitter.  The emitter is a trait object; its answers are the   *)
(* environment's choice.                                                   *)
(***************************************************************************)
EXTENDS Integers, Sequences, FiniteSets, TLC

\* ------------------------------------------------------------------ bounds
MaxInstrs == 2      \* instructions the emitter's iterator yields at most
MaxFaults == 1      \* emitter calls per run that answer false / Err
MaxProbes == 2      \* probes in one (provider, package, event, mode) list
MaxNodes == 5       \* nodes of a behavior tree under construction
MaxAddProbes == 2   \* add_probe calls on one script
MaxDecls == 3       \* user declarations (functions, globals) of one script
MemSize == 3        \* bytes of the module's memory
MaxStrSize == 2     \* the largest string size passed to strcmp
MaxScripts == 1     \* dscripts of one dtrace
MaxTupleLen == 2    \* element types of a tuple type
MaxModeProbes == 2  \* probes of one event of a script

\* ------------------------------------------------------------ Option type
None == <<>>
Some(x) == <<x>>

Last(s) == s[Len(s)]
Front(s) == SubSeq(s, 1, Len(s) - 1)

\* ------------------------------------------- opcode names and snake case
UpperChars == {"A","B","C","D","E","F","G","H","I","J","K","L","M",
               "N","O","P","Q","R","S","T","U","V","W","X","Y","Z"}
LowerChars == {"a","b","c","d","e","f","g","h","i","j","k","l","m",
               "n","o","p","q","r","s","t","u","v","w","x","y","z"}
DigitChars == {"0","1","2","3","4","5","6","7","8","9"}

ToLower(c) ==
  CASE c = "A" -> "a" [] c = "B" -> "b" [] c = "C" -> "c" [] c = "D" -> "d"
    [] c = "E" -> "e" [] c = "F" -> "f" [] c = "G" -> "g" [] c = "H" -> "h"
    [] c = "I" -> "i" [] c = "J" -> "j" [] c = "K" -> "k" [] c = "L" -> "l"
    [] c = "M" -> "m" [] c = "N" -> "n" [] c = "O" -> "o" [] c = "P" -> "p"
    [] c = "Q" -> "q" [] c = "R" -> "r" [] c = "S" -> "s" [] c = "T" -> "t"
    [] c = "U" -> "u" [] c = "V" -> "v" [] c = "W" -> "w" [] c = "X" -> "x"
    [] c = "Y" -> "y" [] c = "Z" -> "z" [] OTHER -> c

\* The characters of the opcode names the emitter's curr_instr_type() yields.
OpChars(op) ==
  CASE op = "Call"          -> <<"C","a","l","l">>
    [] op = "BrIf"          -> <<"B","r","I","f">>
    [] op = "Drop"          -> <<"D","r","o","p">>
    [] op = "V128Bitselect" -> <<"V","1","2","8","B","i","t","s","e","l","e","c","t">>
    [] op = "I8x16Swizzle"  -> <<"I","8","x","1","6","S","w","i","z","z","l","e">>

Opcodes == {"Call", "BrIf", "Drop", "V128Bitselect", "I8x16Swizzle"}

\* A word boundary lies between cs[i] and cs[i+1] (lower|upper, letter|digit,
\* digit|letter, and the acronym rule upper|upper-lower).
IsBoundary(cs, i) ==
  LET a == cs[i]
      b == cs[i + 1]
  IN \/ a \in LowerChars /\ b \in UpperChars
     \/ a \in UpperChars /\ b \in DigitChars
     \/ a \in DigitChars /\ b \in UpperChars
     \/ a \in DigitChars /\ b \in LowerChars
     \/ a \in LowerChars /\ b \in DigitChars
     \/ /\ a \in UpperChars /\ b \in UpperChars
        /\ i + 2 <= Len(cs) /\ cs[i + 2] \in LowerChars

RECURSIVE SnakeFrom(_, _)
SnakeFrom(cs, i) ==
  IF i > Len(cs) THEN ""
  ELSE ToLower(cs[i])
         \o (IF i < Len(cs) /\ IsBoundary(cs, i) THEN "_" ELSE "")
         \o SnakeFrom(cs, i + 1)

\* other.to_case(Case::Snake)
to_case_snake(op) == SnakeFrom(OpChars(op), 1)

instr_ty_of_mut(op) == to_case_snake(op)

\* The canonical event name of an opcode (the match in visit_enter_package).
instr_ty_of(op) ==
  CASE op = "V128Bitselect" -> "v128_bitselect"
    [] op = "I8x16Swizzle"  -> "i8x16_swizzle"
    [] op = "I8x16Shuffle"  -> "i8x16_shuffle"
    [] OTHER                -> to_case_snake(op)

\* ------------------------------------------------------ behavior tree IR
\* A Node of the flat node vector; fields a variant does not have keep the
\* default.  Node index n is element n + 1 of the sequence.
Nd(kind, ty) ==
  [kind |-> kind, ty |-> ty, child |-> 0, children |-> <<>>,
   cond |-> 0, conseq |-> 0, alt |-> 0, force_success |-> FALSE, val |-> FALSE,
   name |-> "", context |-> <<>>, events |-> <<>>, global_names |-> <<>>]

RootNode(c)          == [Nd("Root", "") EXCEPT !.child = c]
SequenceNode(cs)     == [Nd("Sequence", "") EXCEPT !.children = cs]
FallbackNode(cs)     == [Nd("Fallback", "") EXCEPT !.children = cs]
IsProbeModeNode(m, c) == [Nd("Decorator", "IsProbeMode") EXCEPT !.name = m, !.child = c]
HasAltCallNode(c)    == [Nd("Decorator", "HasAltCall") EXCEPT !.child = c]
PredIsNode(v, c)     == [Nd("Decorator", "PredIs") EXCEPT !.val = v, !.child = c]
ArgActionNode(ty, fs) == [Nd("ArgAction", ty) EXCEPT !.force_success = fs]
EnterPackageNode(ctx, pkg, evs, c) ==
  [Nd("ActionWithChild", "EnterPackage") EXCEPT
     !.context = ctx, !.name = pkg, !.events = evs, !.child = c]
EnterProbeNode(m, gs, c) ==
  [Nd("ActionWithChild", "EnterProbe") EXCEPT !.name = m, !.global_names = gs, !.child = c]
EmitIfNode(c, q)     == [Nd("ActionWithParams", "EmitIf") EXCEPT !.cond = c, !.conseq = q]
EmitIfElseNode(c, q, a) ==
  [Nd("ActionWithParams", "EmitIfElse") EXCEPT !.cond = c, !.conseq = q, !.alt = a]
EnterScopeNode(ctx, s) == [Nd("Action", "EnterScope") EXCEPT !.context = ctx, !.name = s]
DefineNode(ctx, v)   == [Nd("Action", "Define") EXCEPT !.context = ctx, !.name = v]
ActionNode(ty)       == Nd("Action", ty)

\* Contexts are the ':'-separated parts of the context string.
CtxScript   == <<"whamm", "script0">>
CtxWasm     == <<"whamm", "script0", "wasm">>
CtxBytecode == <<"whamm", "script0", "wasm", "bytecode">>
CtxCore     == <<"whamm", "script0", "core">>
CtxCorePkg  == <<"whamm", "script0", "core", "*">>

EventsBefore == ("br_if" :> <<"target_fn_name">>)
EventsAlt    == ("call" :> <<>>) @@ ("v128_bitselect" :> <<>>)

\* script / provider / bytecode package, one `before` or `after` probe mode:
\* the predicate is emitted as an `if` around the body unless it folded to
\* the constant true; the original instruction follows (before) or precedes
\* (after) the probe.
TreeBeforeAfter(mode) ==
  << RootNode(1),                                             \* 0
     SequenceNode(<<2, 3, 4, 5, 6, 7>>),                      \* 1
     EnterScopeNode(CtxScript, "script0"),                    \* 2
     ActionNode("EmitGlobalStmts"),                           \* 3
     EnterScopeNode(CtxWasm, "wasm"),                         \* 4
     EnterPackageNode(CtxBytecode, "bytecode", EventsBefore, 8), \* 5
     ActionNode("ExitScope"),                                 \* 6
     ActionNode("ExitScope"),                                 \* 7
     EnterProbeNode(mode, <<>>, 9),                           \* 8
     IsProbeModeNode(mode, 10),                               \* 9
     SequenceNode(IF mode = "before" THEN <<11, 17>> ELSE <<17, 11>>), \* 10
     FallbackNode(<<12, 14>>),                                \* 11
     PredIsNode(TRUE, 13),                                    \* 12
     ActionNode("EmitBody"),                                  \* 13
     EmitIfNode(15, 16),                                      \* 14
     ActionNode("EmitPred"),                                  \* 15
     ActionNode("EmitBody"),                                  \* 16
     ActionNode("EmitOrig") >>                                \* 17

\* script / provider / bytecode package, the `alt` probe mode: save the
\* params, if/else around body + alt call (the original when there is no alt
\* call) versus the original, remove the original.
TreeAlt ==
  << RootNode(1),                                             \* 0
     SequenceNode(<<2, 3, 4, 5, 6, 7>>),                      \* 1
     EnterScopeNode(CtxScript, "script0"),                    \* 2
     ActionNode("EmitGlobalStmts"),                           \* 3
     EnterScopeNode(CtxWasm, "wasm"),                         \* 4
     EnterPackageNode(CtxBytecode, "bytecode", EventsAlt, 8), \* 5
     ActionNode("ExitScope"),                                 \* 6
     ActionNode("ExitScope"),                                 \* 7
     EnterProbeNode("alt", <<"new_target_fn_name">>, 9),      \* 8
     SequenceNode(<<10, 11, 21>>),                            \* 9
     ArgActionNode("SaveParams", TRUE),                       \* 10
     EmitIfElseNode(12, 13, 20),                              \* 11
     ActionNode("EmitPred"),                                  \* 12
     SequenceNode(<<14, 15>>),                                \* 13
     ActionNode("EmitBody"),                                  \* 14
     FallbackNode(<<16, 19>>),                                \* 15
     HasAltCallNode(17),                                      \* 16
     SequenceNode(<<18, 22>>),                                \* 17
     ArgActionNode("EmitParams", FALSE),                      \* 18
     ActionNode("EmitOrig"),                                  \* 19
     ActionNode("EmitOrig"),                                  \* 20
     ActionNode("RemoveOrig"),                                \* 21
     ActionNode("EmitAltCall") >>                             \* 22

\* BEGIN / END: provider `core`, whose package is not `bytecode`.
TreeCore ==
  << RootNode(1),                                             \* 0
     SequenceNode(<<2, 3, 4, 5, 6, 7, 8, 9>>),                \* 1
     ActionNode("Reset"),                                     \* 2
     EnterScopeNode(CtxScript, "script0"),                    \* 3
     FallbackNode(<<12, 13>>),                                \* 4
     ActionNode("EmitGlobalStmts"),                           \* 5
     EnterScopeNode(CtxCore, "core"),                         \* 6
     EnterPackageNode(CtxCorePkg, "*", <<>>, 10),             \* 7
     ActionNode("ExitScope"),                                 \* 8
     ActionNode("ExitScope"),                                 \* 9
     EnterProbeNode("begin", <<>>, 11),                       \* 10
     ActionNode("EmitBody"),                                  \* 11
     DefineNode(CtxScript, "count"),                          \* 12
     ActionNode("ForceSuccess") >>                            \* 13

Scenarios == {"before", "after", "alt", "core"}

TreeOf(sc) ==
  CASE sc = "before" -> TreeBeforeAfter("before")
    [] sc = "after"  -> TreeBeforeAfter("after")
    [] sc = "alt"    -> TreeAlt
    [] sc = "core"   -> TreeCore

\* ------------------------------------------------------------- SimpleAST
\* A predicate is "e" (an expression that is not a constant), or the folded
\* constants "true" / "false" (Primitive Boolean).
ProbeKinds ==
  { [predicate |-> Some("e"), body |-> Some("b")],
    [predicate |-> None,      body |-> None] }

MkProbe(kind, mode, idx) ==
  [id |-> idx, mode |-> mode, predicate |-> kind.predicate, body |-> kind.body]

\* The probe lists of one (provider, package, event, mode): 1..MaxProbes
\* probes, the probe at list position i + 1 having index i.
ProbeLists(mode) ==
  UNION { { [i \in 1..n |-> MkProbe(ks[i], mode, i - 1)] : ks \in [1..n -> ProbeKinds] }
          : n \in 1..MaxProbes }

ModeOf(sc) == IF sc = "core" THEN "begin" ELSE sc

EventsOf(sc) ==
  CASE sc \in {"before", "after"} -> DOMAIN EventsBefore
    [] sc = "alt"                 -> DOMAIN EventsAlt
    [] sc = "core"                -> {}

\* probes: (provider, package, event, mode) -> [Probe], every event of the
\* scenario holding the list pl.
AstOf(sc, pl, gs) ==
  [probes |-> [k \in { <<"wasm", "bytecode", e, ModeOf(sc)>> : e \in EventsOf(sc) } |-> pl],
   global_stmts |-> gs]

\* ------------------------------------------------------------------ state
VARIABLES
  tree,               \* InstrGenerator.tree: the behavior tree's node vector
  ast,                \* InstrGenerator.ast: SimpleAST
  context_name, curr_provider_name, curr_package_name,
  curr_event_name, curr_probe_mode,
  curr_probe,         \* Option<Probe>
  err,                \* ErrorGen: [has_errors, fatal]
  stack,              \* the call stack of visit_* activations
  ret,                \* Option<bool>: value returned by the visit that just ended
  result,             \* Option<bool>: value returned by run()
  phase,              \* "new" before run(), "running", "done"
  done,               \* the visit that ended last: its node, trace and result
  open_scopes,        \* enter_named_scope calls no exit_scope call has closed yet
  underflow,          \* some exit_scope call found no open enter_named_scope call
  mismatch,           \* some exit_scope call closed a call it is not paired with
  last_evs,           \* the emitter calls of the latest step
  emit_failed,        \* some emission call answered Ok(false) or Err
  faults,             \* emitter answers false / Err so far
  curr_instr,         \* emitter: opcode under the instruction cursor
  instr_cnt           \* emitter: instructions the cursor has been on

\* the behavior tree under construction (BehaviorTree of behavior/tree.rs)
VARIABLES
  nodes,              \* BehaviorTree.nodes
  curr,               \* BehaviorTree.curr: index into nodes
  last_call           \* the latest builder call: what it was, the node it was
                      \* made at, and curr before the constructor it follows

builder_vars == << nodes, curr, last_call >>

\* the script the parser fills (Script of parser/types.rs)
VARIABLES
  providers,          \* Script.providers: provider -> package -> event ->
                      \* mode -> the probes stored under that mode
  add_probe_result,   \* what the latest add_probe call returned
  add_probe_calls,    \* add_probe calls so far
  probe_spec          \* Option<ProbeSpec>: the latest call's probe_spec

\* the parser at a probe definition (process_pair of parser/dtrace_parser.rs)
VARIABLES
  spec_rule,          \* Option<Pair>: the PROBE_SPEC pair of the latest probe_def
  spec_str,           \* Option<String>: what probe_spec_from_rule returned for it
  panicked            \* an unwrap() of the parser found None

parser_vars == << spec_rule, spec_str, panicked >>

script_vars == << providers, add_probe_result, add_probe_calls, probe_spec,
                 parser_vars >>

\* the symbol table builder (SymbolTableBuilder of verifier/builder_visitor.rs)
VARIABLES
  table,              \* SymbolTableBuilder.table: records, scopes, curr_scope
  sym_err,            \* the errors the builder has reported to ErrorGen
  cursors,            \* curr_whamm, curr_script, curr_fn
  declared,           \* the declarations visited so far: name, scope, location
  sym_phase           \* where the visit of the AST has got to

symtab_vars == << table, sym_err, cursors, declared, sym_phase >>

\* the function emit_dtrace_strcmp_fn synthesizes, while it runs
\* (generator/emitters.rs)
VARIABLES
  memory,             \* the module's single memory: a vector of bytes
  locals,             \* the function's four parameters and three locals
  pc,                 \* the part of the body that runs next
  returned            \* Option<i32>: the value the latest call returned

strcmp_vars == << memory, locals, pc, returned >>

\* the code generator and its emitter (generator/code_generator.rs,
\* generator/emitters.rs)
VARIABLES
  dtrace,             \* Option<Dtrace>: the AST generate() was given
  cg_context_name,    \* CodeGenerator.context_name
  cg_stack,           \* the visit_* calls that have not returned yet
  emitter,            \* CodeGenerator.emitter: its table and its module
  cg_log,             \* the emit_* calls made so far
  cg_panicked,        \* a todo!(), unimplemented!() or expect() was reached
  cg_result           \* Option<bool>: what generate() returned

codegen_vars == << dtrace, cg_context_name, cg_stack, emitter, cg_log,
                  cg_panicked, cg_result >>

\* one comparison of two DataTypes (parser/types.rs)
VARIABLES
  dt_lhs, dt_rhs,     \* Option<DataType>: the two sides of `==`
  dt_eq               \* Option<bool>: what eq returned

datatype_vars == << dt_lhs, dt_rhs, dt_eq >>

\* the symbol table builder inside a script's providers
\* (verifier/builder_visitor.rs)
VARIABLES
  sym_stack,          \* the visit_* calls that have not returned yet
  sym_done            \* Option: the visit_* that returned last

walk_vars == << sym_stack, sym_done >>

back_end == << strcmp_vars, codegen_vars, datatype_vars, walk_vars >>

\* what the instrumentation driver never touches
front_end == << builder_vars, script_vars, symtab_vars, back_end >>

vars == << tree, ast, context_name, curr_provider_name, curr_package_name,
           curr_event_name, curr_probe_mode, curr_probe, err, stack, ret,
           result, phase, done, open_scopes, underflow, mismatch, last_evs,
           emit_failed, faults,
           curr_instr, instr_cnt, front_end >>

driver_vars == << tree, ast, context_name, curr_provider_name, curr_package_name,
                  curr_event_name, curr_probe_mode, curr_probe, err, stack, ret,
                  result, phase, done, open_scopes, underflow, mismatch, last_evs,
                  emit_failed, faults, curr_instr, instr_cnt >>

\* Node of behavior/tree.rs; fields a variant does not have are 0 / <<>>
TreeNode(kind, ty, id, parent) ==
  [kind |-> kind, ty |-> ty, id |-> id, parent |-> parent, child |-> 0,
   children |-> <<>>, cond |-> 0, conseq |-> 0, alt |-> 0]

\* BehaviorTree::new
BehaviorTree_new ==
  /\ nodes = << TreeNode("Root", "", 0, 0) >>
  /\ curr = 0
  /\ last_call = [op |-> "other", at |-> 0, from |-> None]

\* Script::new, before the first add_probe call
Script_new ==
  /\ providers = <<>>
  /\ add_probe_result = None
  /\ add_probe_calls = 0
  /\ probe_spec = None
  /\ spec_rule = None
  /\ spec_str = None
  /\ panicked = FALSE

\* SymbolTable::new and the builder's fields before visit_whamm
SymbolTableBuilder_new ==
  /\ table = [records |-> <<>>,
              scopes |-> << [parent |-> 0, name |-> "", ty |-> "", names |-> <<>>] >>,
              curr_scope |-> 1]
  /\ sym_err = <<>>
  /\ cursors = [curr_whamm |-> None, curr_script |-> None,
                curr_provider |-> None, curr_package |-> None,
                curr_event |-> None, curr_probe |-> None, curr_fn |-> None]
  /\ sym_stack = <<>>
  /\ sym_done = None
  /\ declared = <<>>
  /\ sym_phase = "new"

\* the synthesized function before its first call: zeroed locals, and a
\* memory the host has not written yet
strcmp_new ==
  /\ memory = [a \in 1..MemSize |-> 0]
  /\ locals = [str0_offset |-> 0, str0_size |-> 0, str1_offset |-> 0,
               str1_size |-> 0, i |-> 0, str0_char |-> 0, str1_char |-> 0]
  /\ pc = "idle"
  /\ returned = None

outside_builder == << driver_vars, script_vars, symtab_vars, back_end >>
outside_script == << driver_vars, builder_vars, symtab_vars, back_end >>
outside_symtab == << driver_vars, builder_vars, script_vars, back_end >>
outside_strcmp == << driver_vars, builder_vars, script_vars, symtab_vars,
                     codegen_vars, datatype_vars, walk_vars >>

\* CodeGenerator::new, before generate() is called
CodeGenerator_new ==
  /\ dtrace = None
  /\ cg_context_name = <<>>
  /\ cg_stack = <<>>
  /\ emitter = [kind |-> "", table |-> [records |-> <<>>, scopes |-> <<>>,
                                        curr_scope |-> 0],
                funcs |-> 0, has_memory |-> FALSE, strcmp |-> None]
  /\ cg_log = <<>>
  /\ cg_panicked = FALSE
  /\ cg_result = None

outside_codegen == << driver_vars, builder_vars, script_vars, symtab_vars,
                      strcmp_vars, datatype_vars, walk_vars >>

\* before two types are compared
DataType_new ==
  /\ dt_lhs = None
  /\ dt_rhs = None
  /\ dt_eq = None

outside_datatype == << driver_vars, builder_vars, script_vars, symtab_vars,
                       strcmp_vars, codegen_vars, walk_vars >>

\* what a visit of the script's providers leaves alone, and what the
\* builder holds
outside_walk == << driver_vars, builder_vars, script_vars, strcmp_vars,
                   codegen_vars, datatype_vars >>
symtab_state == << table, sym_err, cursors, declared >>

driver_fields == << context_name, curr_provider_name, curr_package_name,
                    curr_event_name, curr_probe_mode, curr_probe >>
instr_iter == << curr_instr, instr_cnt >>

Init ==
  /\ BehaviorTree_new
  /\ Script_new
  /\ SymbolTableBuilder_new
  /\ strcmp_new
  /\ CodeGenerator_new
  /\ DataType_new
  /\ \E sc \in Scenarios :
       \E pl \in ProbeLists(ModeOf(sc)) :
         \E gs \in {<<>>, <<"stmt">>} :
           /\ tree = TreeOf(sc)
           /\ ast = AstOf(sc, pl, gs)
  /\ context_name = <<>>
  /\ curr_provider_name = ""
  /\ curr_package_name = ""
  /\ curr_event_name = ""
  /\ curr_probe_mode = ""
  /\ curr_probe = None
  /\ err = [has_errors |-> FALSE, fatal |-> FALSE]
  /\ stack = <<>>
  /\ ret = None
  /\ result = None
  /\ phase = "new"
  /\ done = [node |-> -1, tr |-> <<>>, v |-> TRUE]
  /\ open_scopes = <<>>
  /\ underflow = FALSE
  /\ mismatch = FALSE
  /\ last_evs = <<>>
  /\ emit_failed = FALSE
  /\ faults = 0
  /\ curr_instr = ""
  /\ instr_cnt = 0

\* ---------------------------------------------------------------- helpers
Top == Last(stack)
TopNode == tree[Top.node + 1]

\* BehaviorTree::get_node
get_node(idx) == IF idx < Len(tree) THEN Some(tree[idx + 1]) ELSE None

\* an activation of visit_*: its node, where it stands, its loop index, its
\* is_success, and its trace (its emitter calls, the visits it started and
\* their results, in order)
Frame(n) == [node |-> n, pc |-> "enter", i |-> 0, ok |-> TRUE, tr |-> <<>>]

B(v) == IF v THEN "T" ELSE "F"

\* trace entries: an emitter call (with its answer r and, where a probe is
\* involved, the probe's index p), the start of a visit, the end of a visit.
CallEv(op, a, r, p) == [k |-> "call",  op |-> op, a |-> a,  n |-> Top.node, r |-> r, p |-> p]
VisitEv(n)          == [k |-> "visit", op |-> "", a |-> "", n |-> n, r |-> "", p |-> -1]
RetEv(n, v)         == [k |-> "ret",   op |-> "", a |-> "", n |-> n, r |-> B(v), p |-> -1]

EmissionOps == { "emit_expr", "emit_body", "emit_orig", "emit_alt_call", "remove_orig",
                 "emit_if", "emit_if_else", "emit_condition", "emit_consequent",
                 "emit_alternate", "finish_branch", "save_params", "emit_params",
                 "emit_global_stmts" }

\* the scope calls of evs applied to the open calls
RECURSIVE ScopesAfter(_, _)
ScopesAfter(open, evs) ==
  IF evs = <<>> THEN open
  ELSE LET e == Head(evs)
       IN CASE e.op = "enter_named_scope" ->
                 ScopesAfter(Append(open, [name |-> e.a, by |-> e.n]), Tail(evs))
            [] e.op = "exit_scope" ->
                 ScopesAfter(IF open = <<>> THEN open ELSE Front(open), Tail(evs))
            [] OTHER -> ScopesAfter(open, Tail(evs))

RECURSIVE UnderflowIn(_, _)
UnderflowIn(open, evs) ==
  IF evs = <<>> THEN FALSE
  ELSE LET e == Head(evs)
       IN \/ e.op = "exit_scope" /\ open = <<>>
          \/ UnderflowIn(ScopesAfter(open, <<e>>), Tail(evs))

\* the exit_scope call of node b is meant for the enter_named_scope call of
\* node a: the same EnterPackage / EnterProbe node, or an EnterScope action
\* earlier in the Sequence that holds the ExitScope action
Paired(a, b) ==
  \/ a = b
  \/ /\ tree[a + 1].ty = "EnterScope"
     /\ tree[b + 1].ty = "ExitScope"
     /\ \E q \in 1..Len(tree) :
          /\ tree[q].kind = "Sequence"
          /\ \E x, y \in 1..Len(tree[q].children) :
               x < y /\ tree[q].children[x] = a /\ tree[q].children[y] = b

RECURSIVE MismatchIn(_, _)
MismatchIn(open, evs) ==
  IF evs = <<>> THEN FALSE
  ELSE LET e == Head(evs)
       IN \/ e.op = "exit_scope" /\ open # <<>> /\ ~Paired(Last(open).by, e.n)
          \/ MismatchIn(ScopesAfter(open, <<e>>), Tail(evs))

\* the bookkeeping of the emitter calls evs of one step
Observe(evs) ==
  /\ open_scopes' = ScopesAfter(open_scopes, evs)
  /\ underflow' = (underflow \/ UnderflowIn(open_scopes, evs))
  /\ mismatch' = (mismatch \/ MismatchIn(open_scopes, evs))
  /\ last_evs' = evs
  /\ emit_failed' = (emit_failed \/ \E j \in 1..Len(evs) :
                                      evs[j].op \in EmissionOps /\ evs[j].r # "T")

\* visit_node(child): a new activation on top of the caller's frame f
Call(f, c, evs) ==
  /\ stack' = Append([stack EXCEPT ![Len(stack)] = [f EXCEPT !.tr = @ \o evs \o <<VisitEv(c)>>]],
                     Frame(c))
  /\ ret' = None
  /\ done' = done
  /\ Observe(evs)

\* the activation on top returns v to its caller
Return(v, evs) ==
  /\ stack' = IF Len(stack) = 1 THEN <<>>
              ELSE [Front(stack) EXCEPT ![Len(stack) - 1].tr = @ \o <<RetEv(Top.node, v)>>]
  /\ ret' = Some(v)
  /\ done' = [node |-> Top.node, tr |-> Top.tr \o evs, v |-> v]
  /\ Observe(evs)

\* the activation on top goes on as f
Stay(f, evs) ==
  /\ stack' = [stack EXCEPT ![Len(stack)] = [f EXCEPT !.tr = @ \o evs]]
  /\ ret' = None
  /\ done' = done
  /\ Observe(evs)

Visiting(kind, ty) ==
  /\ phase = "running"
  /\ stack # <<>>
  /\ TopNode.kind = kind
  /\ TopNode.ty = ty

\* ------------------------------------------------- emitter (environment)
BoolRes == {"T", "F"}        \* bool
ResRes  == {"T", "F", "E"}   \* Result<bool, WhammError>: Ok(true), Ok(false), Err
UnitRes == {"T", "E"}        \* Result<(), WhammError>
Cost(r) == IF r = "T" THEN 0 ELSE 1

RECURSIVE SumCost(_)
SumCost(rs) == IF rs = <<>> THEN 0 ELSE Cost(Head(rs)) + SumCost(Tail(rs))

Affordable(rs) == faults + SumCost(rs) <= MaxFaults

\* ExprFolder::get_single_bool: Some(b) iff the expression is Primitive Boolean b
get_single_bool(pred) ==
  CASE pred = "true"  -> Some(TRUE)
    [] pred = "false" -> Some(FALSE)
    [] OTHER          -> None

\* Emitter::fold_expr: a constant stays; an expression may fold to either
\* constant or stay an expression.
fold_outcomes(pred) ==
  IF get_single_bool(pred) # None THEN {pred} ELSE {pred, "true", "false"}

\* ------------------------------------------------- ErrorGen (collector)
add_error(e) == [e EXCEPT !.has_errors = TRUE]
unexpected_error(e) == [e EXCEPT !.has_errors = TRUE, !.fatal = TRUE]

\* err after a Result-returning call answered r
AfterRes(e, r) == IF r = "E" THEN add_error(e) ELSE e
\* err after enter_named_scope answered r
AfterEnter(e, r) == IF r = "F" THEN unexpected_error(e) ELSE e

RECURSIVE AfterAll(_, _)
AfterAll(e, rs) == IF rs = <<>> THEN e ELSE AfterAll(AfterRes(e, Head(rs)), Tail(rs))

\* is_success after `Ok(res) => is_success &= res` over the answers rs
AllOk(rs) == \A j \in 1..Len(rs) : rs[j] # "F"

DefineEvs_mut(globals, rs) == <<>>

\* define_compiler_var for each global, answers rs
DefineEvs(globals, rs) ==
  [j \in 1..Len(globals) |-> CallEv("define_compiler_var", globals[j], rs[j], -1)]

\* ----------------------------------------------------- InstrGenerator::run
run ==
  \/ /\ phase = "new"
     /\ phase' = "running"
     /\ stack' = <<Frame(0)>>
     /\ ret' = None
     /\ last_evs' = <<>>
     /\ UNCHANGED result
  \/ /\ phase = "running"
     /\ stack = <<>>
     /\ ret # None
     /\ phase' = "done"
     /\ result' = ret
     /\ last_evs' = <<>>
     /\ UNCHANGED << stack, ret >>

Run ==
  /\ run
  /\ UNCHANGED << front_end, tree, ast, driver_fields, err, faults, instr_iter,
                  done, open_scopes, underflow, mismatch, emit_failed >>

\* ------------------------------------------------------------ visit_root
visit_root ==
  /\ Visiting("Root", "")
  /\ IF Top.pc = "enter"
       THEN IF get_node(TopNode.child) # None
              THEN Call([Top EXCEPT !.pc = "child"], TopNode.child, <<>>)
              ELSE Return(TRUE, <<>>)
       ELSE Return(ret[1], <<>>)
  /\ UNCHANGED << front_end, tree, ast, driver_fields, err, faults, instr_iter, result, phase >>

\* -------------------------------------------------------- visit_sequence
sequence_stops_mut(child_is_success) == FALSE

\* `if !&child_is_success { return child_is_success; }`
sequence_stops(child_is_success) == ~child_is_success

\* frame.i: position (1-based) of the child being visited, 0 before the first
visit_sequence ==
  /\ Visiting("Sequence", "")
  /\ LET ch == TopNode.children
         \* a child index without a node counts as a successful child
         rest == { j \in (Top.i + 1)..Len(ch) : get_node(ch[j]) # None }
     IN IF ret # None /\ sequence_stops(ret[1])
          THEN Return(ret[1], <<>>)
          ELSE IF rest = {}
                 THEN Return(TRUE, <<>>)
                 ELSE LET j == CHOOSE x \in rest : \A y \in rest : x <= y
                      IN Call([Top EXCEPT !.i = j], ch[j], <<>>)
  /\ UNCHANGED << front_end, tree, ast, driver_fields, err, faults, instr_iter, result, phase >>

\* -------------------------------------------------------- visit_fallback
fallback_stops_mut(child_is_success) == FALSE

\* `if child_is_success { return child_is_success; }`
fallback_stops(child_is_success) == child_is_success

visit_fallback ==
  /\ Visiting("Fallback", "")
  /\ LET ch == TopNode.children
         j == Top.i + 1
     IN IF ret # None /\ fallback_stops(ret[1])
          THEN Return(ret[1], <<>>)
          ELSE IF j > Len(ch)
                 THEN Return(FALSE, <<>>)
                 ELSE IF get_node(ch[j]) # None
                        THEN Call([Top EXCEPT !.i = j], ch[j], <<>>)
                        \* child_is_success stays true when the node is missing
                        ELSE Return(TRUE, <<>>)
  /\ UNCHANGED << front_end, tree, ast, driver_fields, err, faults, instr_iter, result, phase >>

\* ----------------------------------------------------------- decorators
\* the shared tail of the decorators: visit the child and return its result
DecorateChild ==
  IF Top.pc = "enter"
    THEN IF get_node(TopNode.child) # None
           THEN Call([Top EXCEPT !.pc = "child"], TopNode.child, <<>>)
           ELSE Return(TRUE, <<>>)
    ELSE Return(ret[1], <<>>)

visit_is_probe_mode ==
  /\ Visiting("Decorator", "IsProbeMode")
  /\ IF Top.pc = "enter" /\ curr_probe_mode # TopNode.name
       THEN Return(FALSE, <<>>)
       ELSE DecorateChild
  /\ UNCHANGED << front_end, tree, ast, driver_fields, err, faults, instr_iter, result, phase >>

visit_has_alt_call ==
  /\ Visiting("Decorator", "HasAltCall")
  /\ IF Top.pc = "enter"
       THEN \E r \in BoolRes :
              LET ev == <<CallEv("has_alt_call", "", r, -1)>>
              IN IF r = "T"
                   THEN IF get_node(TopNode.child) # None
                          THEN Call([Top EXCEPT !.pc = "child"], TopNode.child, ev)
                          ELSE Return(TRUE, ev)
                   ELSE Return(FALSE, ev)
       ELSE Return(ret[1], <<>>)
  /\ UNCHANGED << front_end, tree, ast, driver_fields, err, faults, instr_iter, result, phase >>

\* does the current probe's predicate equal the constant val?
pred_is_mut(val) ==
  /\ curr_probe # None
  /\ curr_probe[1].predicate # None
  /\ get_single_bool(curr_probe[1].predicate[1]) # None

\* the nested `if let` conditions of visit_pred_is
pred_is(val) ==
  /\ curr_probe # None
  /\ curr_probe[1].predicate # None
  /\ get_single_bool(curr_probe[1].predicate[1]) = Some(val)

visit_pred_is ==
  /\ Visiting("Decorator", "PredIs")
  /\ IF Top.pc = "enter"
       THEN IF pred_is(TopNode.val) /\ get_node(TopNode.child) # None
              THEN Call([Top EXCEPT !.pc = "child"], TopNode.child, <<>>)
              ELSE Return(FALSE, <<>>)
       ELSE Return(ret[1], <<>>)
  /\ UNCHANGED << front_end, tree, ast, driver_fields, err, faults, instr_iter, result, phase >>

\* ------------------------------------- visit_save_params / visit_emit_params
no_params_result_mut(force_success) == TRUE

\* `return force_success.clone();`
no_params_result(force_success) == force_success

\* has_params() answers Ok(true) "T", Ok(false) "F" or Err "E"; only Err is a
\* fault.
HasParamsAffordable(hp) == hp # "E" \/ faults < MaxFaults

visit_save_params ==
  /\ Visiting("ArgAction", "SaveParams")
  /\ \E hp \in ResRes :
       /\ HasParamsAffordable(hp)
       /\ LET hev == CallEv("has_params", "", hp, -1)
          IN CASE hp = "E" ->
                    /\ err' = add_error(err)
                    /\ faults' = faults + 1
                    /\ Return(TRUE, <<hev>>)
               [] hp = "T" ->
                    \E r \in BoolRes :
                      /\ Affordable(<<r>>)
                      /\ faults' = faults + Cost(r)
                      /\ err' = err
                      /\ Return(r = "T", <<hev, CallEv("save_params", "", r, -1)>>)
               [] hp = "F" ->
                    /\ UNCHANGED << err, faults >>
                    /\ Return(no_params_result(TopNode.force_success), <<hev>>)
  /\ UNCHANGED << front_end, tree, ast, driver_fields, instr_iter, result, phase >>

visit_emit_params ==
  /\ Visiting("ArgAction", "EmitParams")
  /\ \E hp \in ResRes :
       /\ HasParamsAffordable(hp)
       /\ LET hev == CallEv("has_params", "", hp, -1)
          IN CASE hp = "E" ->
                    /\ err' = add_error(err)
                    /\ faults' = faults + 1
                    /\ Return(TRUE, <<hev>>)
               [] hp = "T" ->
                    \E r \in ResRes :
                      /\ Affordable(<<r>>)
                      /\ faults' = faults + Cost(r)
                      /\ err' = AfterRes(err, r)
                      /\ Return(r # "F", <<hev, CallEv("emit_params", "", r, -1)>>)
               [] hp = "F" ->
                    /\ UNCHANGED << err, faults >>
                    /\ Return(no_params_result(TopNode.force_success), <<hev>>)
  /\ UNCHANGED << front_end, tree, ast, driver_fields, instr_iter, result, phase >>

\* ------------------------------------------------------ set_context_info
\* the parts of the context after `whamm` and the script name
CtxProvider(ctx, old) == IF Len(ctx) >= 3 THEN ctx[3] ELSE old
CtxPackage(ctx, old)  == IF Len(ctx) >= 4 THEN ctx[4] ELSE old
CtxEvent(ctx, old)    == IF Len(ctx) >= 5 THEN ctx[5] ELSE old
CtxMode(ctx, old)     == IF Len(ctx) >= 6 THEN ctx[6] ELSE old

set_context_info(ctx) ==
  /\ context_name' = ctx
  /\ curr_provider_name' = CtxProvider(ctx, curr_provider_name)
  /\ curr_package_name' = CtxPackage(ctx, curr_package_name)
  /\ curr_event_name' = CtxEvent(ctx, curr_event_name)
  /\ curr_probe_mode' = CtxMode(ctx, curr_probe_mode)

\* --------------------------------------------------- visit_enter_package
\* frame.pc: "enter", "loop" (about to examine an instruction; frame.i = 0
\* while first_instr), "child" (the child's visit for an instruction ended).
\* frame.tr is the trace of the current loop iteration.
visit_enter_package ==
  /\ Visiting("ActionWithChild", "EnterPackage")
  /\ LET nd == TopNode
         events == nd.events
         \* one instruction under the cursor: of interest or not
         Examine(op, pre, cnt) ==
           LET instr_ty == instr_ty_of(op)
           IN /\ curr_instr' = op
              /\ instr_cnt' = cnt
              /\ IF instr_ty \in DOMAIN events
                   THEN \E r \in BoolRes : \E rs \in [1..Len(events[instr_ty]) -> ResRes] :
                        \E x \in UnitRes :
                          LET has_child == get_node(nd.child) # None
                              answers == IF has_child THEN <<r>> \o rs ELSE <<r>> \o rs \o <<x>>
                              evs == pre \o <<CallEv("enter_named_scope", instr_ty, r, -1)>>
                                         \o DefineEvs(events[instr_ty], rs)
                              ok2 == Top.ok /\ AllOk(rs)
                              e1 == AfterAll(AfterEnter(err, r), rs)
                          IN /\ has_child => x = "T"
                             /\ Affordable(answers)
                             /\ faults' = faults + SumCost(answers)
                             /\ err' = IF has_child THEN e1 ELSE AfterRes(e1, x)
                             /\ curr_event_name' = instr_ty
                             /\ IF has_child
                                  THEN Call([Top EXCEPT !.pc = "child", !.i = 1, !.ok = ok2,
                                                         !.tr = <<>>], nd.child, evs)
                                  ELSE Stay([Top EXCEPT !.pc = "loop", !.i = 1, !.ok = ok2,
                                                         !.tr = <<>>], evs \o <<CallEv("exit_scope", "", x, -1)>>)
                   ELSE /\ Stay([Top EXCEPT !.pc = "loop", !.i = 1, !.tr = <<>>], pre)
                        /\ UNCHANGED << faults, err, curr_event_name >>
     IN CASE Top.pc = "enter" /\ nd.name # "bytecode" ->
               /\ Return(TRUE, <<>>)
               /\ UNCHANGED << driver_fields, err, faults, instr_iter >>
          [] Top.pc = "enter" /\ nd.name = "bytecode" ->
               \E r1 \in UnitRes : \E r2 \in BoolRes : \E op \in Opcodes :
                 /\ Affordable(<<r1, r2>>)
                 /\ faults' = faults + SumCost(<<r1, r2>>)
                 /\ err' = AfterEnter(AfterRes(err, r1), r2)
                 /\ set_context_info(nd.context)
                 /\ curr_instr' = op
                 /\ instr_cnt' = 1
                 /\ Stay([Top EXCEPT !.pc = "loop", !.i = 0],
                         << CallEv("init_instr_iter", "", r1, -1),
                            CallEv("enter_named_scope", nd.name, r2, -1) >>)
                 /\ UNCHANGED curr_probe
          [] Top.pc = "loop" /\ Top.i = 0 ->
               /\ Examine(curr_instr, <<CallEv("curr_instr_type", curr_instr, "T", -1)>>,
                          instr_cnt)
               /\ UNCHANGED << context_name, curr_provider_name, curr_package_name,
                               curr_probe_mode, curr_probe >>
          [] Top.pc = "loop" /\ Top.i # 0 ->
               \/ /\ instr_cnt < MaxInstrs
                  /\ \E op \in Opcodes :
                       Examine(op, << CallEv("has_next_instr", "", "T", -1),
                                      CallEv("next_instr", "", "T", -1),
                                      CallEv("curr_instr_type", op, "T", -1) >>,
                               instr_cnt + 1)
                  /\ UNCHANGED << context_name, curr_provider_name, curr_package_name,
                                  curr_probe_mode, curr_probe >>
               \/ \E x \in UnitRes :
                    /\ Affordable(<<x>>)
                    /\ faults' = faults + Cost(x)
                    /\ err' = AfterRes(err, x)
                    /\ Return(Top.ok, << CallEv("has_next_instr", "", "F", -1),
                                         CallEv("exit_scope", "", x, -1) >>)
                    /\ UNCHANGED << driver_fields, instr_iter >>
          [] Top.pc = "child" ->
               \E x \in UnitRes :
                 /\ Affordable(<<x>>)
                 /\ faults' = faults + Cost(x)
                 /\ err' = AfterRes(err, x)
                 /\ Stay([Top EXCEPT !.pc = "loop", !.ok = Top.ok /\ ret[1]],
                         <<CallEv("exit_scope", "", x, -1)>>)
                 /\ UNCHANGED << driver_fields, instr_iter >>
  /\ UNCHANGED << front_end, tree, ast, result, phase >>

\* ----------------------------------------------------- AST operations
ProbeKey(mode) == << curr_provider_name, curr_package_name, curr_event_name, mode >>

\* get_probes_from_ast (unreachable!() when the AST has no such list)
get_probes_from_ast(mode) == ast.probes[ProbeKey(mode)]

get_probe_at_idx_mut(mode, idx) ==
  LET probes == get_probes_from_ast(mode)
  IN IF idx < Len(probes) THEN Some(probes[1]) ELSE None

\* get_probe_at_idx: Vec::get(idx), idx counted from 0
get_probe_at_idx(mode, idx) ==
  LET probes == get_probes_from_ast(mode)
  IN IF idx < Len(probes) THEN Some(probes[idx + 1]) ELSE None

\* ----------------------------------------------------- visit_enter_probe
Probe_clone_mut(probe) == [probe EXCEPT !.body = None]

\* `probe.clone()`: a Probe of its own, equal to the one of the AST
Probe_clone(probe) == probe

first_probe_mut(probe_list) ==
  IF probe_list = <<>> THEN None ELSE Some(probe_list[Len(probe_list)])

\* `probe_list.get(0)`
first_probe(probe_list) ==
  IF probe_list = <<>> THEN None ELSE Some(probe_list[1])

alt_short_circuits_mut(pred) == FALSE

\* the `alt` short-circuit: the folded predicate is the constant false
alt_short_circuits(pred) == get_single_bool(pred) = Some(FALSE)

short_circuit_exit_mut(x) == <<>>

\* the exit_scope call of the `alt` short-circuit
short_circuit_exit(x) == <<CallEv("exit_scope", "", x, -1)>>

\* frame.pc: "enter"; "loop" (before/after: about to take probe frame.i);
\* "child" (before/after: the child's visit for probe frame.i ended);
\* "alt" (alt: about to take the first probe); "altchild" (its visit ended)
visit_enter_probe ==
  /\ Visiting("ActionWithChild", "EnterProbe")
  /\ LET nd == TopNode
         probe_mode == nd.name
         has_child == get_node(nd.child) # None
         \* exit this probe's scope and return v
         Leave(v) ==
           \E x \in UnitRes :
             /\ Affordable(<<x>>)
             /\ faults' = faults + Cost(x)
             /\ err' = AfterRes(err, x)
             /\ Return(v, <<CallEv("exit_scope", "", x, -1)>>)
         \* `before` / `after`: probe number i of the list, then the child
         Iterate(i, ok) ==
           IF i >= Len(get_probes_from_ast(probe_mode))
             THEN /\ Leave(ok)
                  /\ UNCHANGED curr_probe
             ELSE LET got == get_probe_at_idx(probe_mode, i)
                      probe == Probe_clone(got[1])
                  IN IF probe.predicate # None
                       THEN \E r \in BoolRes : \E folded \in fold_outcomes(probe.predicate[1]) :
                              LET probe_cloned == [probe EXCEPT !.predicate = Some(folded)]
                                  ev == <<CallEv("fold_expr", folded, r, probe.id)>>
                                  ok2 == ok /\ (r = "T")
                              IN /\ Affordable(<<r>>)
                                 /\ faults' = faults + Cost(r)
                                 /\ err' = err
                                 /\ curr_probe' = Some(probe_cloned)
                                 /\ IF has_child
                                      THEN Call([Top EXCEPT !.pc = "child", !.i = i, !.ok = ok2],
                                                nd.child, ev)
                                      ELSE Stay([Top EXCEPT !.pc = "loop", !.i = i + 1, !.ok = ok2],
                                                ev)
                       ELSE /\ curr_probe' = Some(probe)
                            /\ UNCHANGED << faults, err >>
                            /\ IF has_child
                                 THEN Call([Top EXCEPT !.pc = "child", !.i = i, !.ok = ok],
                                           nd.child, <<>>)
                                 ELSE Stay([Top EXCEPT !.pc = "loop", !.i = i + 1, !.ok = ok], <<>>)
         \* after the clone of the first `alt` probe was (or was not) taken
         AltDescend(ok, ev) ==
           IF has_child
             THEN /\ Call([Top EXCEPT !.pc = "altchild", !.ok = ok], nd.child, ev)
                  /\ UNCHANGED << faults, err >>
             ELSE \E x \in UnitRes :
                    /\ Affordable(<<x>>)
                    /\ faults' = faults + Cost(x)
                    /\ err' = AfterRes(err, x)
                    /\ Return(ok, ev \o <<CallEv("exit_scope", "", x, -1)>>)
     IN /\ probe_mode \in {"before", "after", "alt"}
        /\ ProbeKey(probe_mode) \in DOMAIN ast.probes
        /\ CASE Top.pc = "enter" ->
                  \E r \in BoolRes : \E rs \in [1..Len(nd.global_names) -> ResRes] :
                    /\ Affordable(<<r>> \o rs)
                    /\ faults' = faults + SumCost(<<r>> \o rs)
                    /\ err' = AfterAll(AfterEnter(err, r), rs)
                    /\ curr_probe_mode' = probe_mode
                    /\ Stay([Top EXCEPT !.pc = IF probe_mode = "alt" THEN "alt" ELSE "loop",
                                        !.i = 0, !.ok = AllOk(rs)],
                            <<CallEv("enter_named_scope", probe_mode, r, -1)>>
                              \o DefineEvs(nd.global_names, rs))
                    /\ UNCHANGED curr_probe
             [] Top.pc = "loop" ->
                  /\ Iterate(Top.i, Top.ok)
                  /\ UNCHANGED curr_probe_mode
             [] Top.pc = "child" ->
                  /\ Iterate(Top.i + 1, Top.ok /\ ret[1])
                  /\ UNCHANGED curr_probe_mode
             [] Top.pc = "alt" ->
                  /\ UNCHANGED curr_probe_mode
                  /\ LET probe_list == get_probes_from_ast(probe_mode)
                         warn == IF Len(probe_list) > 1
                                   THEN <<CallEv("warn", probe_mode, "T", -1)>> ELSE <<>>
                     IN IF first_probe(probe_list) = None
                          THEN /\ AltDescend(Top.ok, warn)
                               /\ UNCHANGED curr_probe
                          ELSE LET probe == Probe_clone(first_probe(probe_list)[1])
                               IN IF probe.predicate = None
                                    THEN /\ curr_probe' = Some(probe)
                                         /\ AltDescend(Top.ok, warn)
                                    ELSE \E r \in BoolRes :
                                         \E folded \in fold_outcomes(probe.predicate[1]) :
                                           LET probe_cloned == [probe EXCEPT !.predicate = Some(folded)]
                                               ev == warn \o <<CallEv("fold_expr", folded, r, probe.id)>>
                                               ok2 == Top.ok /\ (r = "T")
                                           IN IF alt_short_circuits(folded)
                                                \* short-circuit: exit the scope, return true
                                                THEN \E x \in UnitRes :
                                                       /\ Affordable(<<r, x>>)
                                                       /\ faults' = faults + SumCost(<<r, x>>)
                                                       /\ err' = AfterRes(err, x)
                                                       /\ Return(TRUE, ev \o short_circuit_exit(x))
                                                       /\ UNCHANGED curr_probe
                                                ELSE /\ Affordable(<<r>>)
                                                     /\ curr_probe' = Some(probe_cloned)
                                                     /\ IF has_child
                                                          THEN /\ Call([Top EXCEPT !.pc = "altchild", !.ok = ok2],
                                                                       nd.child, ev)
                                                               /\ faults' = faults + Cost(r)
                                                               /\ err' = err
                                                          ELSE \E x \in UnitRes :
                                                                 /\ Affordable(<<r, x>>)
                                                                 /\ faults' = faults + SumCost(<<r, x>>)
                                                                 /\ err' = AfterRes(err, x)
                                                                 /\ Return(ok2, ev \o <<CallEv("exit_scope", "", x, -1)>>)
             [] Top.pc = "altchild" ->
                  /\ Leave(Top.ok /\ ret[1])
                  /\ UNCHANGED << curr_probe_mode, curr_probe >>
  /\ UNCHANGED << front_end, tree, ast, context_name, curr_provider_name, curr_package_name,
                  curr_event_name, instr_iter, result, phase >>

\* -------------------------- visit_emit_if / visit_emit_if_else
\* emit_cond / emit_conseq / emit_alt, in this order; frame.i is the number of
\* the part being visited (0 before the first).
ParamSlots_mut(nd) ==
  IF nd.ty = "EmitIfElse" THEN <<nd.conseq, nd.cond, nd.alt>> ELSE <<nd.conseq, nd.cond>>

\* emit_cond(cond); emit_conseq(conseq); emit_alt(alt)
ParamSlots(nd) ==
  IF nd.ty = "EmitIfElse" THEN <<nd.cond, nd.conseq, nd.alt>> ELSE <<nd.cond, nd.conseq>>
ParamOps == <<"emit_condition", "emit_consequent", "emit_alternate">>

EmitParts(open_ev) ==
  LET slots == ParamSlots(TopNode)
      rest == { j \in (Top.i + 1)..Len(slots) : get_node(slots[j]) # None }
      \* parts whose node does not exist: an unexpected error each, no visit
      Skipped(upto) == { j \in (Top.i + 1)..upto : get_node(slots[j]) = None }
  IN IF rest = {}
       THEN /\ err' = IF Skipped(Len(slots)) # {} THEN unexpected_error(err) ELSE err
            /\ Return(TRUE, open_ev \o <<CallEv("finish_branch", "", "T", -1)>>)
       ELSE LET j == CHOOSE x \in rest : \A y \in rest : x <= y
            IN /\ err' = IF Skipped(j) # {} THEN unexpected_error(err) ELSE err
               /\ Call([Top EXCEPT !.pc = "part", !.i = j], slots[j],
                       open_ev \o <<CallEv(ParamOps[j], "", "T", -1)>>)

visit_emit_if_else ==
  /\ Visiting("ActionWithParams", "EmitIfElse")
  /\ IF Top.pc = "enter"
       THEN EmitParts(<<CallEv("emit_if_else", "", "T", -1)>>)
       ELSE EmitParts(<<>>)
  /\ UNCHANGED << front_end, tree, ast, driver_fields, faults, instr_iter, result, phase >>

visit_emit_if ==
  /\ Visiting("ActionWithParams", "EmitIf")
  /\ IF Top.pc = "enter"
       THEN EmitParts(<<CallEv("emit_if", "", "T", -1)>>)
       ELSE EmitParts(<<>>)
  /\ UNCHANGED << front_end, tree, ast, driver_fields, faults, instr_iter, result, phase >>

\* --------------------------------------------------------------- actions
\* one emitter call answering in R; Err is collected, Ok(res) is the result
EmitAndReturn(op, a, R, p) ==
  \E r \in R :
    /\ Affordable(<<r>>)
    /\ faults' = faults + Cost(r)
    /\ err' = AfterRes(err, r)
    /\ Return(r # "F", <<CallEv(op, a, r, p)>>)

NothingToEmit ==
  /\ UNCHANGED << faults, err >>
  /\ Return(TRUE, <<>>)

CurrProbeId == IF curr_probe = None THEN -1 ELSE curr_probe[1].id

visit_enter_scope ==
  /\ Visiting("Action", "EnterScope")
  /\ \E r \in BoolRes :
       /\ Affordable(<<r>>)
       /\ faults' = faults + Cost(r)
       /\ err' = AfterEnter(err, r)
       /\ set_context_info(TopNode.context)
       /\ Return(TRUE, <<CallEv("enter_named_scope", TopNode.name, r, -1)>>)
  /\ UNCHANGED << front_end, tree, ast, curr_probe, instr_iter, result, phase >>

visit_exit_scope ==
  /\ Visiting("Action", "ExitScope")
  /\ \E x \in UnitRes :
       /\ Affordable(<<x>>)
       /\ faults' = faults + Cost(x)
       /\ err' = AfterRes(err, x)
       /\ Return(TRUE, <<CallEv("exit_scope", "", x, -1)>>)
  /\ UNCHANGED << front_end, tree, ast, driver_fields, instr_iter, result, phase >>

visit_define ==
  /\ Visiting("Action", "Define")
  /\ EmitAndReturn("define_compiler_var", TopNode.name, ResRes, -1)
  /\ UNCHANGED << front_end, tree, ast, driver_fields, instr_iter, result, phase >>

visit_emit_global_stmts ==
  /\ Visiting("Action", "EmitGlobalStmts")
  /\ IF ast.global_stmts # <<>>
       THEN EmitAndReturn("emit_global_stmts", "", ResRes, -1)
       ELSE NothingToEmit
  /\ UNCHANGED << front_end, tree, ast, driver_fields, instr_iter, result, phase >>

visit_emit_pred ==
  /\ Visiting("Action", "EmitPred")
  /\ IF curr_probe # None /\ curr_probe[1].predicate # None
       THEN EmitAndReturn("emit_expr", curr_probe[1].predicate[1], ResRes, CurrProbeId)
       ELSE NothingToEmit
  /\ UNCHANGED << front_end, tree, ast, driver_fields, instr_iter, result, phase >>

visit_reset ==
  /\ Visiting("Action", "Reset")
  /\ UNCHANGED << faults, err >>
  /\ Return(TRUE, <<CallEv("reset_children", "", "T", -1)>>)
  /\ UNCHANGED << front_end, tree, ast, driver_fields, instr_iter, result, phase >>

visit_emit_body ==
  /\ Visiting("Action", "EmitBody")
  /\ IF curr_probe # None /\ curr_probe[1].body # None
       THEN EmitAndReturn("emit_body", curr_probe[1].body[1], ResRes, CurrProbeId)
       ELSE NothingToEmit
  /\ UNCHANGED << front_end, tree, ast, driver_fields, instr_iter, result, phase >>

visit_emit_alt_call ==
  /\ Visiting("Action", "EmitAltCall")
  /\ EmitAndReturn("emit_alt_call", "", ResRes, CurrProbeId)
  /\ UNCHANGED << front_end, tree, ast, driver_fields, instr_iter, result, phase >>

visit_remove_orig ==
  /\ Visiting("Action", "RemoveOrig")
  /\ EmitAndReturn("remove_orig", "", BoolRes, CurrProbeId)
  /\ UNCHANGED << front_end, tree, ast, driver_fields, instr_iter, result, phase >>

visit_emit_orig ==
  /\ Visiting("Action", "EmitOrig")
  /\ EmitAndReturn("emit_orig", "", BoolRes, CurrProbeId)
  /\ UNCHANGED << front_end, tree, ast, driver_fields, instr_iter, result, phase >>

visit_force_success ==
  /\ Visiting("Action", "ForceSuccess")
  /\ NothingToEmit
  /\ UNCHANGED << front_end, tree, ast, driver_fields, instr_iter, result, phase >>

\* ------------------------------------------------------------------ Next
Next ==
  \/ Run
  \/ visit_root
  \/ visit_sequence
  \/ visit_fallback
  \/ visit_is_probe_mode
  \/ visit_has_alt_call
  \/ visit_pred_is
  \/ visit_save_params
  \/ visit_emit_params
  \/ visit_enter_package
  \/ visit_enter_probe
  \/ visit_emit_if_else
  \/ visit_emit_if
  \/ visit_enter_scope
  \/ visit_exit_scope
  \/ visit_define
  \/ visit_emit_global_stmts
  \/ visit_emit_pred
  \/ visit_reset
  \/ visit_emit_body
  \/ visit_emit_alt_call
  \/ visit_remove_orig
  \/ visit_emit_orig
  \/ visit_force_success

Spec == Init /\ [][Next]_vars

TypeOK ==
  /\ phase \in {"new", "running", "done"}
  /\ faults \in 0..MaxFaults
  /\ instr_cnt \in 0..MaxInstrs

\* =================================================================
\* Properties
\* =================================================================
IsVisit(e) == e.k = "visit"
IsRet(e)   == e.k = "ret"
IsCall(e)  == e.k = "call"
VisitsOf(tr) == SelectSeq(tr, IsVisit)
RetsOf(tr)   == SelectSeq(tr, IsRet)
CallsOf(tr)  == SelectSeq(tr, IsCall)

NodeAt(n) == tree[n + 1]
IsKind(n, kind, ty) == n >= 0 /\ NodeAt(n).kind = kind /\ NodeAt(n).ty = ty

\* the activations on the stack and the one that ended last
Activations ==
  { [node |-> stack[j].node, tr |-> stack[j].tr] : j \in 1..Len(stack) }
Ended(kind, ty) == IsKind(done.node, kind, ty)

\* the children of a Sequence / Fallback are visited in list order, without
\* gaps, and a child's result `stop` is the last thing in the trace
InOrderUntil(n, tr, stop) ==
  LET ch == NodeAt(n).children
      vs == VisitsOf(tr)
      rs == RetsOf(tr)
  IN /\ Len(vs) <= Len(ch)
     /\ \A j \in 1..Len(vs) : vs[j].n = ch[j]
     /\ Len(rs) <= Len(vs)
     /\ \A j \in 1..Len(rs) : rs[j].r = stop => (j = Len(rs) /\ Len(vs) = Len(rs))

\* C1: visit_sequence visits the children in list order, visits no child
\* after the first one that returned false and then returns false; it
\* returns true exactly when every child was visited and returned true.
C1_SequenceOrder ==
  /\ \A f \in Activations :
       IsKind(f.node, "Sequence", "") => InOrderUntil(f.node, f.tr, "F")
  /\ Ended("Sequence", "") =>
       LET rs == RetsOf(done.tr)
       IN /\ InOrderUntil(done.node, done.tr, "F")
          /\ Len(rs) = Len(VisitsOf(done.tr))
          /\ done.v <=> ( /\ Len(rs) = Len(NodeAt(done.node).children)
                          /\ \A j \in 1..Len(rs) : rs[j].r = "T" )
          /\ ~done.v => (rs # <<>> /\ Last(rs).r = "F")

\* a Sequence returned false with a later child left unvisited
C1_Witness ==
  /\ Ended("Sequence", "")
  /\ ~done.v
  /\ Len(VisitsOf(done.tr)) < Len(NodeAt(done.node).children)
  /\ Len(VisitsOf(done.tr)) >= 2

\* C2: visit_fallback visits the children in list order, visits no child
\* after the first one that returned true and then returns true; it returns
\* false exactly when no child returned true.
C2_FallbackOrder ==
  /\ \A f \in Activations :
       IsKind(f.node, "Fallback", "") => InOrderUntil(f.node, f.tr, "T")
  /\ Ended("Fallback", "") =>
       LET rs == RetsOf(done.tr)
       IN /\ InOrderUntil(done.node, done.tr, "T")
          /\ Len(rs) = Len(VisitsOf(done.tr))
          /\ done.v => (rs # <<>> /\ Last(rs).r = "T")
          /\ ~done.v <=> ( /\ Len(rs) = Len(NodeAt(done.node).children)
                           /\ \A j \in 1..Len(rs) : rs[j].r = "F" )

\* a Fallback returned true on its first child, the second left unvisited
C2_Witness ==
  /\ Ended("Fallback", "")
  /\ done.v
  /\ Len(VisitsOf(done.tr)) = 1
  /\ Len(NodeAt(done.node).children) = 2

\* a Fallback whose children all failed returned false
C2_WitnessAllFail ==
  /\ Ended("Fallback", "")
  /\ ~done.v
  /\ Len(RetsOf(done.tr)) = 2

\* C3: in a run that returns success the enter_named_scope / exit_scope calls
\* are balanced: every exit_scope closed the latest open scope, the one it is
\* paired with, none found no scope open, none is open at the end.
C3_ScopeBalance ==
  (phase = "done" /\ result = Some(TRUE)) =>
     (open_scopes = <<>> /\ ~underflow /\ ~mismatch)

\* a successful run over two instructions that entered and left `alt` probes
C3_Witness ==
  /\ phase = "done"
  /\ result = Some(TRUE)
  /\ curr_probe_mode = "alt"
  /\ instr_cnt >= 2
  /\ open_scopes = <<>>

\* C4: after a failed emission action the ExitScope actions of
\* the enclosing sub-sequence are still executed, so at the end of the run no
\* scope entered by an EnterScope action is open.
C4_ExitScopeAfterFailure ==
  (phase = "done" /\ emit_failed) =>
     \A j \in 1..Len(open_scopes) : NodeAt(open_scopes[j].by).ty # "EnterScope"

IsFold(e) == e.op = "fold_expr"
IsEmission(e) == e.op \in EmissionOps
FoldsOf(tr) == SelectSeq(tr, IsFold)
EmissionsOf(tr) == SelectSeq(tr, IsEmission)

\* the activation is inside the child's visit for a probe whose predicate
\* folded to the constant false
InFalseProbe(f) ==
  /\ IsKind(f.node, "ActionWithChild", "EnterProbe")
  /\ FoldsOf(f.tr) # <<>>
  /\ Last(FoldsOf(f.tr)).a = "false"

\* C5: while visit_enter_probe handles a probe (mode before, after or alt)
\* whose predicate folded to the constant false, no emission call is made
\* on the emitter.
C5_NoEmissionAnyMode ==
  \A f \in Activations : InFalseProbe(f) => EmissionsOf(last_evs) = <<>>

\* the short-circuit of mode `alt`: a visit_enter_probe whose first probe's
\* predicate folds to the constant false visits no child, makes no emission
\* call, leaves the scope and returns true.
AltShortCircuit ==
  /\ \A f \in Activations : InFalseProbe(f) => NodeAt(f.node).name # "alt"
  /\ ( /\ Ended("ActionWithChild", "EnterProbe")
       /\ NodeAt(done.node).name = "alt"
       /\ \E j \in 1..Len(done.tr) : IsFold(done.tr[j]) /\ done.tr[j].a = "false" )
     => ( /\ done.v
          /\ VisitsOf(done.tr) = <<>>
          /\ EmissionsOf(done.tr) = <<>>
          /\ Last(done.tr).op = "exit_scope" )

\* an `alt` probe folded to false although fold_expr itself answered false
AltShortCircuitReached ==
  /\ Ended("ActionWithChild", "EnterProbe")
  /\ NodeAt(done.node).name = "alt"
  /\ \E j \in 1..Len(done.tr) :
       IsFold(done.tr[j]) /\ done.tr[j].a = "false" /\ done.tr[j].r = "F"
  /\ done.v

InsideEnterProbe ==
  \E j \in 1..Len(stack) : IsKind(stack[j].node, "ActionWithChild", "EnterProbe")

\* C6: curr_probe is Some only while a visit_enter_probe is
\* active.
C6_CurrProbeOnlyInsideProbe == curr_probe # None => InsideEnterProbe

\* C7: a run that recorded an unexpected (fatal) error returns
\* false.
C7_FatalMeansFailure == (phase = "done" /\ err.fatal) => result = Some(FALSE)

\* the event name every opcode is documented to have
ExpectedEventName(op) ==
  CASE op = "Call"          -> "call"
    [] op = "BrIf"          -> "br_if"
    [] op = "Drop"          -> "drop"
    [] op = "V128Bitselect" -> "v128_bitselect"
    [] op = "I8x16Swizzle"  -> "i8x16_swizzle"

IsInstrType(e) == e.op = "curr_instr_type"
IsScopeEntry(e) == e.op = "enter_named_scope"
IsDefine(e) == e.op = "define_compiler_var"

\* one loop iteration of visit_enter_package, by its trace
IterationOK(n, tr) ==
  LET its == SelectSeq(tr, IsInstrType)
      ev == ExpectedEventName(its[1].a)
      entries == SelectSeq(tr, IsScopeEntry)
  IN its # <<>> =>
       IF ev \in DOMAIN NodeAt(n).events
         THEN /\ Len(VisitsOf(tr)) = 1
              /\ VisitsOf(tr)[1].n = NodeAt(n).child
              /\ Len(entries) = 1
              /\ entries[1].a = ev
              /\ Len(SelectSeq(tr, IsDefine)) = Len(NodeAt(n).events[ev])
         ELSE /\ VisitsOf(tr) = <<>>
              /\ entries = <<>>
              /\ SelectSeq(tr, IsDefine) = <<>>

\* C8: in visit_enter_package the child is visited for an instruction iff
\* the instruction's canonical event name is a key of `events`; otherwise
\* there is no scope entry, no variable definition and no child visit.
C8_InstrFilter ==
  /\ \A f \in Activations :
       IsKind(f.node, "ActionWithChild", "EnterPackage") => IterationOK(f.node, f.tr)
  /\ Ended("ActionWithChild", "EnterPackage") => IterationOK(done.node, done.tr)

\* the child is being visited for a V128Bitselect instruction
C8_Witness ==
  \E f \in Activations :
    /\ IsKind(f.node, "ActionWithChild", "EnterPackage")
    /\ SelectSeq(f.tr, IsInstrType) # <<>>
    /\ SelectSeq(f.tr, IsInstrType)[1].a = "V128Bitselect"
    /\ Len(VisitsOf(f.tr)) = 1

\* C9: visit_save_params / visit_emit_params ask has_params() first; on
\* Ok(true) they call save_params / emit_params and return its boolean; on
\* Ok(false) they call nothing else and return the node's force_success.
ArgActionOK(op) ==
  LET tr == done.tr
  IN /\ tr # <<>>
     /\ tr[1].op = "has_params"
     /\ tr[1].r = "T" => ( /\ Len(tr) = 2
                           /\ tr[2].op = op
                           /\ tr[2].r = "T" => done.v
                           /\ tr[2].r = "F" => ~done.v )
     /\ tr[1].r = "F" => ( /\ Len(tr) = 1
                           /\ done.v = NodeAt(done.node).force_success )

C9_ParamsOrForceSuccess ==
  /\ Ended("ArgAction", "SaveParams") => ArgActionOK("save_params")
  /\ Ended("ArgAction", "EmitParams") => ArgActionOK("emit_params")

\* EmitParams with force_success = false found no params and returned false
C9_Witness ==
  /\ Ended("ArgAction", "EmitParams")
  /\ ~NodeAt(done.node).force_success
  /\ done.tr[1].r = "F"
  /\ ~done.v

AltProbeEnded ==
  /\ Ended("ActionWithChild", "EnterProbe")
  /\ NodeAt(done.node).name = "alt"

AltListLen == Len(ast.probes[<<"wasm", "bytecode", curr_event_name, "alt">>])

\* C10 (as claimed): with more than one `alt` probe the child is visited
\* once, for the probe at index 0.
C10_AltChildVisitedOnce ==
  (AltProbeEnded /\ AltListLen > 1) =>
     ( /\ Len(VisitsOf(done.tr)) = 1
       /\ \A j \in 1..Len(FoldsOf(done.tr)) : FoldsOf(done.tr)[j].p = 0 )

\* C10 (amended): with more than one `alt` probe only the probe at index 0
\* is folded, becomes curr_probe and is emitted; the child is visited at
\* most once: once, unless that probe's predicate folded to the constant
\* false, and then not at all.
C10_AltTakesFirstOnly ==
  /\ (AltProbeEnded /\ AltListLen > 1) =>
       LET folds == FoldsOf(done.tr)
       IN /\ Len(folds) <= 1
          /\ \A j \in 1..Len(folds) : folds[j].p = 0
          /\ Len(VisitsOf(done.tr)) =
               (IF folds # <<>> /\ folds[1].a = "false" THEN 0 ELSE 1)
  /\ \A j \in 1..Len(stack) :
       ( /\ IsKind(stack[j].node, "ActionWithChild", "EnterProbe")
         /\ NodeAt(stack[j].node).name = "alt"
         /\ stack[j].pc = "altchild" )
       => ( /\ curr_probe # None
            /\ curr_probe[1].id = 0
            /\ \A q \in 1..Len(last_evs) : last_evs[q].p \in {-1, 0} )

\* the child of an `alt` EnterProbe with two probes was visited once
C10_Witness ==
  /\ AltProbeEnded
  /\ AltListLen = 2
  /\ Len(VisitsOf(done.tr)) = 1
  /\ curr_probe # None
  /\ curr_probe[1].id = 0

\* what a trace entry is: the emitter method called, the node visited, or
\* the end of a visit
Shape(e) ==
  CASE e.k = "call"  -> <<"call", e.op>>
    [] e.k = "visit" -> <<"visit", e.n>>
    [] e.k = "ret"   -> <<"ret", e.n>>

ShapeOf(tr) == [j \in 1..Len(tr) |-> Shape(tr[j])]

BranchPart(op, n) == << <<"call", op>>, <<"visit", n>>, <<"ret", n>> >>

\* C11: visit_emit_if / visit_emit_if_else call emit_if (emit_if_else), then
\* emit_condition and visit cond, then emit_consequent and visit conseq,
\* then (EmitIfElse only) emit_alternate and visit alt, and finish_branch
\* last and once.
C11_BranchOrder ==
  /\ Ended("ActionWithParams", "EmitIf") =>
       ShapeOf(done.tr) =
         << <<"call", "emit_if">> >>
           \o BranchPart("emit_condition", NodeAt(done.node).cond)
           \o BranchPart("emit_consequent", NodeAt(done.node).conseq)
           \o << <<"call", "finish_branch">> >>
  /\ Ended("ActionWithParams", "EmitIfElse") =>
       ShapeOf(done.tr) =
         << <<"call", "emit_if_else">> >>
           \o BranchPart("emit_condition", NodeAt(done.node).cond)
           \o BranchPart("emit_consequent", NodeAt(done.node).conseq)
           \o BranchPart("emit_alternate", NodeAt(done.node).alt)
           \o << <<"call", "finish_branch">> >>

\* an EmitIfElse ended whose consequent failed and whose alternate succeeded
C11_Witness ==
  /\ Ended("ActionWithParams", "EmitIfElse")
  /\ Len(done.tr) = 11
  /\ done.tr[7].r = "F"
  /\ done.tr[10].r = "T"
  /\ done.v

\* the current probe's folded predicate is the constant val
FoldedTo(val) ==
  /\ curr_probe # None
  /\ curr_probe[1].predicate # None
  /\ curr_probe[1].predicate[1] = (IF val THEN "true" ELSE "false")

\* C12: visit_pred_is visits the child, and returns the child's result, iff
\* the current probe's folded predicate is the constant val; otherwise it
\* visits nothing and returns false.
C12_PredIs ==
  /\ \A j \in 1..Len(stack) :
       (IsKind(stack[j].node, "Decorator", "PredIs") /\ stack[j].pc = "child")
         => FoldedTo(NodeAt(stack[j].node).val)
  /\ Ended("Decorator", "PredIs") =>
       IF FoldedTo(NodeAt(done.node).val)
         THEN /\ ShapeOf(done.tr) = << <<"visit", NodeAt(done.node).child>>,
                                       <<"ret", NodeAt(done.node).child>> >>
              /\ done.v = (done.tr[2].r = "T")
         ELSE /\ done.tr = <<>>
              /\ ~done.v

\* PredIs{true} met a predicate folded to the constant false
C12_Witness ==
  /\ Ended("Decorator", "PredIs")
  /\ NodeAt(done.node).val
  /\ FoldedTo(FALSE)
  /\ done.tr = <<>>
  /\ ~done.v

\* PredIs{true} met the constant true, and the child it visited failed
C12_WitnessVisited ==
  /\ Ended("Decorator", "PredIs")
  /\ FoldedTo(TRUE)
  /\ Len(done.tr) = 2
  /\ ~done.v

\* =================================================================
\* BehaviorTree: the builder API (behavior/tree.rs)
\* =================================================================
DecoratorTypes == {"PredIs"}
ParamActionTypes == {"EmitIf", "EmitIfElse"}
Constructors == {"sequence", "fallback", "decorator", "parameterized_action"}

\* BehaviorTree::get_curr (curr always indexes an existing node)
get_curr == nodes[curr + 1]

add_action_as_param_mut(nd, idx, id) ==
  IF nd.ty = "EmitIf"
    THEN IF idx = 0 THEN [nd EXCEPT !.conseq = id]
         ELSE IF idx = 1 THEN [nd EXCEPT !.cond = id]
         ELSE nd
    ELSE IF idx = 0 THEN [nd EXCEPT !.cond = id]
         ELSE IF idx = 1 THEN [nd EXCEPT !.alt = id]
         ELSE IF idx = 2 THEN [nd EXCEPT !.conseq = id]
         ELSE nd

\* BehaviorTree::add_action_as_param, on the current ParameterizedAction nd
add_action_as_param(nd, idx, id) ==
  IF nd.ty = "EmitIf"
    THEN IF idx = 0 THEN [nd EXCEPT !.cond = id]
         ELSE IF idx = 1 THEN [nd EXCEPT !.conseq = id]
         ELSE nd
    ELSE IF idx = 0 THEN [nd EXCEPT !.cond = id]
         ELSE IF idx = 1 THEN [nd EXCEPT !.conseq = id]
         ELSE IF idx = 2 THEN [nd EXCEPT !.alt = id]
         ELSE nd

\* BehaviorTree::put_child: the current node with the new child written
\* into it (an Action takes no child)
with_child(nd, new_id) ==
  CASE nd.kind \in {"Root", "Decorator"} -> [nd EXCEPT !.child = new_id]
    [] nd.kind \in {"Sequence", "Fallback"} ->
         [nd EXCEPT !.children = Append(@, new_id)]
    [] nd.kind = "ParameterizedAction" ->
         add_action_as_param([nd EXCEPT !.children = Append(@, new_id)],
                             Len(nd.children), new_id)
    [] OTHER -> nd

\* BehaviorTree::put_child: assigned_id
assigned_id(node) ==
  IF get_curr.kind # "Action" THEN Some(Len(nodes)) ELSE None

\* BehaviorTree::put_child: the node vector afterwards
put_child(node) ==
  IF assigned_id(node) # None
    THEN Append([nodes EXCEPT ![curr + 1] = with_child(@, Len(nodes))], node)
    ELSE nodes

entered_mut(node) == curr

\* BehaviorTree::put_child_and_enter: curr afterwards
entered(node) ==
  IF assigned_id(node) # None THEN assigned_id(node)[1] ELSE curr

put_child_and_enter(node) ==
  /\ nodes' = put_child(node)
  /\ curr' = entered(node)

ExitOps == {"exit_sequence", "exit_fallback", "exit_decorator",
            "exit_parameterized_action"}

\* the kind of node an exit_* call expects
ExitKind(op) ==
  CASE op = "exit_sequence" -> "Sequence"
    [] op = "exit_fallback" -> "Fallback"
    [] op = "exit_decorator" -> "Decorator"
    [] op = "exit_parameterized_action" -> "ParameterizedAction"

\* last_call after the call op: a constructor ("ctor", from = curr before
\* it), an exit_* made while curr is a node of its kind ("exit", at = that
\* node, from = curr before the constructor when the exit directly follows
\* the constructor), any other call ("other")
Called(op) ==
  last_call' =
    IF op \in Constructors
      THEN [op |-> "ctor", at |-> curr, from |-> Some(curr)]
    ELSE IF op \in ExitOps /\ get_curr.kind = ExitKind(op)
      THEN [op |-> "exit", at |-> curr,
            from |-> IF last_call.op = "ctor" THEN last_call.from ELSE None]
    ELSE [op |-> "other", at |-> 0, from |-> None]

Building == Len(nodes) < MaxNodes

sequence ==
  /\ Building
  /\ put_child_and_enter(TreeNode("Sequence", "", Len(nodes), curr))
  /\ Called("sequence")
  /\ UNCHANGED outside_builder

fallback ==
  /\ Building
  /\ put_child_and_enter(TreeNode("Fallback", "", Len(nodes), curr))
  /\ Called("fallback")
  /\ UNCHANGED outside_builder

decorator ==
  /\ Building
  /\ \E ty \in DecoratorTypes :
       put_child_and_enter(TreeNode("Decorator", ty, Len(nodes), curr))
  /\ Called("decorator")
  /\ UNCHANGED outside_builder

parameterized_action ==
  /\ Building
  /\ \E ty \in ParamActionTypes :
       put_child_and_enter(TreeNode("ParameterizedAction", ty, Len(nodes), curr))
  /\ Called("parameterized_action")
  /\ UNCHANGED outside_builder

exit_to_parent_mut(kinds) == curr

\* the exit_* calls: curr goes to the parent when the current node is of
\* the expected kind, and stays (an error is logged) when it is not
exit_to_parent(kinds) ==
  IF get_curr.kind \in kinds THEN get_curr.parent ELSE curr

Exit(op, kinds) ==
  /\ curr' = exit_to_parent(kinds)
  /\ Called(op)
  /\ UNCHANGED << nodes, outside_builder >>

exit_sequence == Exit("exit_sequence", {"Sequence"})
exit_fallback == Exit("exit_fallback", {"Fallback"})
exit_decorator == Exit("exit_decorator", {"Decorator"})
exit_parameterized_action == Exit("exit_parameterized_action", {"ParameterizedAction"})
exit_child == Exit("exit_child", {"Sequence", "Fallback", "Decorator"})

\* the action constructors: put_child(Node::Action {id, parent: curr, ty})
ActionCtor(ty) ==
  /\ Building
  /\ nodes' = put_child(TreeNode("Action", ty, Len(nodes), curr))
  /\ Called("action")
  /\ UNCHANGED << curr, outside_builder >>

\* (define, emit_pred, emit_orig, ... differ from emit_body in the ActionType
\* only)
emit_body == ActionCtor("EmitBody")

\* BehaviorTree::put_floating_child: the caller made the node, with the
\* parent it chose
put_floating_child ==
  /\ Building
  /\ nodes' = Append(nodes, TreeNode("Action", "EmitOrig", Len(nodes), curr))
  /\ Called("put_floating_child")
  /\ UNCHANGED << curr, outside_builder >>

\* BehaviorTree::reset
reset ==
  /\ curr' = 0
  /\ Called("reset")
  /\ UNCHANGED << nodes, outside_builder >>

NextTree ==
  \/ sequence
  \/ exit_sequence
  \/ fallback
  \/ exit_fallback
  \/ decorator
  \/ exit_decorator
  \/ parameterized_action
  \/ exit_parameterized_action
  \/ emit_body
  \/ put_floating_child
  \/ exit_child
  \/ reset

\* the driver stands still while the tree is built
InitTree ==
  /\ Init
  /\ tree = TreeCore
  /\ ast.global_stmts = <<>>

SpecTree == InitTree /\ [][NextTree]_vars

TreeTypeOK ==
  /\ Len(nodes) \in 1..MaxNodes
  /\ curr \in 0..(Len(nodes) - 1)
  /\ \A j \in 1..Len(nodes) : nodes[j].id = j - 1

\* -------------------------------------------------- BehaviorTree properties
Range(f) == { f[j] : j \in DOMAIN f }

\* node p holds index i in its child field or its children list
HeldBy(p, i) ==
  \/ i \in Range(nodes[p + 1].children)
  \/ nodes[p + 1].kind \in {"Root", "Decorator"} /\ nodes[p + 1].child = i

\* C13: every non-root node's parent is the index of an existing node, and
\* that node holds the node's own index in its child field or children list.
C13_ParentHoldsChild ==
  \A j \in 2..Len(nodes) :
    /\ nodes[j].parent \in 0..(Len(nodes) - 1)
    /\ HeldBy(nodes[j].parent, j - 1)

\* the slots of a ParameterizedAction, in the order cond, conseq, alt
SlotsOf(nd) ==
  IF nd.ty = "EmitIfElse" THEN <<nd.cond, nd.conseq, nd.alt>> ELSE <<nd.cond, nd.conseq>>

ParamActions == { j \in 1..Len(nodes) : nodes[j].kind = "ParameterizedAction" }

\* C14 (as claimed): the i-th child added to a ParameterizedAction is in
\* slot i (cond, conseq, alt), and the cond / conseq / alt indices are all
\* members of its children list, after any number of put_child calls.
C14_SlotsAreChildren ==
  \A j \in ParamActions :
    LET nd == nodes[j]
        slots == SlotsOf(nd)
    IN /\ \A i \in 1..Len(slots) : i <= Len(nd.children) => slots[i] = nd.children[i]
       /\ \A i \in 1..Len(slots) : slots[i] \in Range(nd.children)

\* C14 (amended): the i-th child added to a ParameterizedAction is in slot
\* i (cond, conseq, alt), so every slot written so far is a member of the
\* children list; a slot whose child has not been added yet keeps the value
\* the node was made with.
C14_WrittenSlotsAreChildren ==
  \A j \in ParamActions :
    LET nd == nodes[j]
        slots == SlotsOf(nd)
    IN \A i \in 1..Len(slots) :
         IF i <= Len(nd.children)
           THEN slots[i] = nd.children[i] /\ slots[i] \in Range(nd.children)
           ELSE slots[i] = 0

\* an EmitIfElse has got its three children
C14_Witness ==
  \E j \in ParamActions :
    /\ nodes[j].ty = "EmitIfElse"
    /\ Len(nodes[j].children) = 3
    /\ nodes[j].alt = nodes[j].children[3]

ControlKinds == {"Sequence", "Fallback", "Decorator", "ParameterizedAction"}

\* C15: a control-node constructor appends a node as a child of the node at
\* curr and moves curr to it; the matching exit_* made at that node moves
\* curr to the node's parent; a constructor directly followed by its exit_*
\* leaves curr where it was before the constructor.
C15_EnterAndExit ==
  /\ last_call.op = "ctor" =>
       /\ curr = Len(nodes) - 1
       /\ get_curr.kind \in ControlKinds
       /\ get_curr.parent = last_call.from[1]
       /\ HeldBy(last_call.from[1], curr)
  /\ last_call.op = "exit" => curr = nodes[last_call.at + 1].parent
  /\ (last_call.op = "exit" /\ last_call.from # None) => curr = last_call.from[1]

\* a constructor called at a node other than the root, then its exit_*
C15_Witness ==
  /\ last_call.op = "exit"
  /\ last_call.from # None
  /\ last_call.from[1] # 0
  /\ curr = last_call.from[1]

\* =================================================================
\* Script::add_probe: the probe-spec matcher (parser/types.rs)
\* =================================================================
\* Strings are sequences of characters.
s_wasm == <<"w","a","s","m">>
s_core == <<"c","o","r","e">>
s_bytecode == <<"b","y","t","e","c","o","d","e">>
s_call == <<"c","a","l","l">>
s_br == <<"b","r">>
s_before == <<"b","e","f","o","r","e">>
s_after == <<"a","f","t","e","r">>
s_alt == <<"a","l","t">>
s_begin == <<"b","e","g","i","n">>
s_end == <<"e","n","d">>
s_dne == <<"d","n","e">>
s_star == <<"*">>
s_empty == <<>>

\* the registry of instrumentation points: provider -> package -> event ->
\* modes; two events of the wasm bytecode package stand for all of them
provided_probes ==
  (s_wasm :> (s_bytecode :> (s_call :> <<s_before, s_after, s_alt>> @@
                             s_br :> <<s_before, s_after, s_alt>>))) @@
  (s_core :> (s_empty :> (s_empty :> <<s_begin, s_end>>)))

\* the orders in which the registry's hash maps can be iterated
HashOrders ==
  { po \o <<s_bytecode, s_empty>> \o eo :
      po \in {<<s_wasm, s_core>>, <<s_core, s_wasm>>},
      eo \in {<<s_call, s_br>>, <<s_br, s_call>>} }

\* str::to_lowercase
to_lowercase(s) == [i \in 1..Len(s) |-> ToLower(s[i])]

\* str::split(c)
RECURSIVE split(_, _)
split(s, c) ==
  IF \A i \in 1..Len(s) : s[i] # c
    THEN << s >>
    ELSE LET i == CHOOSE i \in 1..Len(s) :
                    s[i] = c /\ \A j \in 1..(i - 1) : s[j] # c
         IN << SubSeq(s, 1, i - 1) >> \o split(SubSeq(s, i + 1, Len(s)), c)

\* get_globs: one glob per `|` alternative
get_globs(patt) == split(patt, "|")

\* glob::Pattern::matches with `*` and `?` (specs hold no other wildcard)
RECURSIVE glob_matches(_, _)
glob_matches(glob, s) ==
  IF glob = <<>> THEN s = <<>>
  ELSE IF Head(glob) = "*"
    THEN \/ glob_matches(Tail(glob), s)
         \/ s # <<>> /\ glob_matches(glob, Tail(s))
  ELSE /\ s # <<>>
       /\ Head(glob) = "?" \/ Head(glob) = Head(s)
       /\ glob_matches(Tail(glob), Tail(s))

matches_globs(s, globs) ==
  \E i \in 1..Len(globs) : glob_matches(globs[i], s)

\* the names of `names`, in hash order h, that the pattern matches
matching(h, names, patt) ==
  LET globs == get_globs(to_lowercase(patt))
      Test(n) == n \in names /\ matches_globs(to_lowercase(n), globs)
  IN SelectSeq(h, Test)

\* OldProvider::get_matches
Provider_get_matches(h, prov_patt) ==
  matching(h, DOMAIN provided_probes, prov_patt)

\* Package::get_matches
Package_get_matches(h, provider, mod_patt) ==
  matching(h, DOMAIN provided_probes[provider], mod_patt)

\* Event::get_matches
Event_get_matches(h, provider, package, func_patt) ==
  matching(h, DOMAIN provided_probes[provider][package], func_patt)

Probe_get_matches_mut(provider, package, event, mode_patt) ==
  provided_probes[provider][package][event]

\* Probe::get_matches: the modes are a Vec, in registry order
Probe_get_matches(provider, package, event, mode_patt) ==
  LET globs == get_globs(to_lowercase(mode_patt))
      Test(n) == matches_globs(to_lowercase(n), globs)
  IN SelectSeq(provided_probes[provider][package][event], Test)

\* HashMap::insert and HashMap::remove
Put(map, key, val) ==
  [k \in DOMAIN map \cup {key} |-> IF k = key THEN val ELSE map[k]]
Remove(map, key) == [k \in DOMAIN map \ {key} |-> map[k]]

\* get_mut(name), and insert under the lower-cased name when it is absent
entry_key(map, name) ==
  IF name \in DOMAIN map THEN name ELSE to_lowercase(name)
entry(map, name) ==
  IF name \in DOMAIN map THEN map[name] ELSE <<>>

\* Probe::new; body stands for the predicate and body the call was given
Probe_new(mode, loc, body) == [mode |-> mode, loc |-> loc, body |-> body]

\* Event::insert_probe
insert_probe(probe_map, name, probe) ==
  IF name \in DOMAIN probe_map
    THEN [probe_map EXCEPT ![name] = Append(@, probe)]
    ELSE Put(probe_map, name, << probe >>)

\* ErrorGen::get_parse_error / get_unexpected_error, and Ok(())
Ok == [kind |-> "Ok", span |-> None]
get_parse_error(line_col) == [kind |-> "ParseError", span |-> Some(line_col)]
get_unexpected_error == [kind |-> "UnexpectedError", span |-> None]

\* add_probe, the loop over the matched modes of one event
RECURSIVE for_modes(_, _, _)
for_modes(probe_map, names, probe) ==
  IF names = <<>> THEN probe_map
  ELSE for_modes(insert_probe(probe_map, Head(names), probe), Tail(names), probe)

\* add_probe, one matched event with the modes `matches` found under it;
\* st holds package.events, reason and is_empty
with_modes(st, event_str, mode_patt, matches, body) ==
  [events |-> Put(st.events, entry_key(st.events, event_str),
                  for_modes(entry(st.events, event_str), matches,
                            Probe_new(mode_patt.name, mode_patt.loc, body))),
   reason |-> IF matches = <<>> THEN "mode" ELSE st.reason,
   is_empty |-> st.is_empty /\ matches = <<>>]

\* add_probe, the body of the loop over the matched events
for_event(st, event_str, provider_str, package_str, spec, body) ==
  IF spec.mode = None
    THEN [st EXCEPT !.events = Put(@, entry_key(st.events, event_str),
                                   entry(st.events, event_str))]
    ELSE with_modes(st, event_str, spec.mode[1],
                    Probe_get_matches(provider_str, package_str, event_str,
                                      spec.mode[1].name),
                    body)

\* add_probe, the loop over the matched events of one package
RECURSIVE for_events(_, _, _, _, _, _)
for_events(st, names, provider_str, package_str, spec, body) ==
  IF names = <<>> THEN st
  ELSE for_events(for_event(st, Head(names), provider_str, package_str,
                            spec, body),
                  Tail(names), provider_str, package_str, spec, body)

\* add_probe, one matched package after the loop over its events has
\* ended with r; st holds provider.packages, reason, is_empty and the value
\* returned from inside the loop, if any
with_events(st, package_str, r) ==
  [packages |-> Put(st.packages, entry_key(st.packages, package_str), r.events),
   reason |-> r.reason, is_empty |-> r.is_empty, ret |-> None]

\* add_probe, the events `matches` found under one matched package
in_package(st, package_str, matches, provider_str, spec, body) ==
  with_events(st, package_str,
    for_events([events |-> entry(st.packages, package_str),
                reason |-> IF matches = <<>> THEN "event" ELSE st.reason,
                is_empty |-> st.is_empty],
               matches, provider_str, package_str, spec, body))

\* add_probe, the body of the loop over the matched packages
for_package(st, package_str, h, provider_str, spec, body) ==
  IF spec.event = None
    THEN [st EXCEPT !.packages = Put(@, entry_key(st.packages, package_str),
                                     entry(st.packages, package_str)),
                    !.ret = Some(get_unexpected_error)]
    ELSE in_package(st, package_str,
                    Event_get_matches(h, provider_str, package_str,
                                      spec.event[1].name),
                    provider_str, spec, body)

\* add_probe, the loop over the matched packages of one provider
RECURSIVE for_packages(_, _, _, _, _, _)
for_packages(st, names, h, provider_str, spec, body) ==
  IF names = <<>> \/ st.ret # None THEN st
  ELSE for_packages(for_package(st, Head(names), h, provider_str, spec, body),
                    Tail(names), h, provider_str, spec, body)

is_begin_or_end(provider_str) ==
  to_lowercase(provider_str) \in {s_begin, s_end}

kept_mut(provs, provider_str, is_empty) == provs

\* `if is_empty { self.providers.remove(provider_str); }`
kept(provs, provider_str, is_empty) ==
  IF is_empty THEN Remove(provs, provider_str) ELSE provs

\* add_probe, one matched provider after the loop over its packages has
\* ended with r; st holds self.providers, reason and the value returned
\* from inside the loop, if any
with_packages(st, provider_str, r) ==
  [providers |->
     IF r.ret # None
       THEN Put(st.providers, entry_key(st.providers, provider_str), r.packages)
       ELSE kept(Put(st.providers, entry_key(st.providers, provider_str),
                     r.packages),
                 provider_str, r.is_empty),
   reason |-> r.reason, ret |-> r.ret]

\* add_probe, the packages `matches` found under one matched provider
in_provider(st, provider_str, matches, h, spec, body) ==
  with_packages(st, provider_str,
    for_packages([packages |-> entry(st.providers, provider_str),
                  reason |-> IF matches = <<>> THEN "package" ELSE st.reason,
                  is_empty |-> TRUE, ret |-> None],
                 matches, h, provider_str, spec, body))

\* add_probe, the body of the loop over the matched providers
for_provider(st, provider_str, h, spec, body) ==
  IF is_begin_or_end(provider_str) \/ spec.package = None
    THEN [st EXCEPT
            !.providers = Put(@, entry_key(st.providers, provider_str),
                              entry(st.providers, provider_str)),
            !.ret = IF is_begin_or_end(provider_str)
                      THEN Some(Ok) ELSE Some(get_unexpected_error)]
    ELSE in_provider(st, provider_str,
                     Package_get_matches(h, provider_str, spec.package[1].name),
                     h, spec, body)

\* add_probe, the loop over the matched providers
RECURSIVE for_providers(_, _, _, _, _)
for_providers(st, names, h, spec, body) ==
  IF names = <<>> \/ st.ret # None THEN st
  ELSE for_providers(for_provider(st, Head(names), h, spec, body),
                     Tail(names), h, spec, body)

no_providers_left_mut(provs) == TRUE

\* `self.providers.is_empty()`, the guard of the final parse error
no_providers_left(provs) == DOMAIN provs = {}

\* add_probe, after the loop over the providers has ended with st
after_providers(st, spec) ==
  [providers |-> st.providers,
   result |->
     IF st.ret # None THEN st.ret[1]
     ELSE IF /\ no_providers_left(st.providers)
             /\ spec[st.reason] # None
             /\ spec[st.reason][1].loc # None
       THEN get_parse_error(spec[st.reason][1].loc[1])
     ELSE Ok]

\* add_probe with the providers `matches` found for the spec
with_providers(provs, prov_patt, matches, h, spec, body) ==
  IF matches = <<>>
    THEN [providers |-> provs, result |-> get_parse_error(prov_patt.loc[1])]
    ELSE after_providers(
           for_providers([providers |-> provs, reason |-> "provider",
                          ret |-> None],
                         matches, h, spec, body),
           spec)

\* Script::add_probe: self.providers afterwards, and the value returned
add_probe_outcome(provs, h, spec, body) ==
  IF spec.provider = None
    THEN [providers |-> provs, result |-> get_unexpected_error]
    ELSE with_providers(provs, spec.provider[1],
                        Provider_get_matches(h, spec.provider[1].name),
                        h, spec, body)

\* ---- the probe specs the parser hands over
\* a SpecPart; its location is the position of the part in the spec
SpecPart(name, level) == Some([name |-> name, loc |-> Some(level)])

ProbeSpecOf(a, b, c, d) ==
  [provider |-> SpecPart(a, "provider"), package |-> SpecPart(b, "package"),
   event |-> SpecPart(c, "event"), mode |-> SpecPart(d, "mode")]

Spec_call_alt == ProbeSpecOf(s_wasm, s_bytecode, s_call, s_alt)
Spec_byt_glob ==
  ProbeSpecOf(s_wasm, <<"b","y","t","*">>, s_call, s_before)
Spec_any_alt == ProbeSpecOf(s_star, s_star, s_star, s_alt)
Spec_call_any == ProbeSpecOf(s_wasm, s_bytecode, s_call, s_star)
Spec_BEGIN ==
  ProbeSpecOf(s_core, s_star, s_star, <<"B","E","G","I","N">>)
Spec_upper_bars ==
  ProbeSpecOf(<<"W","A","S","M">>, s_bytecode, s_call \o <<"|">> \o s_br,
              s_before \o <<"|">> \o s_after)
Spec_no_mode == ProbeSpecOf(s_wasm, s_bytecode, s_call, s_dne)
Spec_no_event == ProbeSpecOf(s_wasm, s_bytecode, s_dne, s_alt)
Spec_no_package == ProbeSpecOf(s_wasm, s_dne, s_star, s_star)
Spec_no_provider == ProbeSpecOf(s_dne, s_star, s_star, s_star)
Spec_call_begin == ProbeSpecOf(s_star, s_star, s_call, s_begin)
Spec_part_missing == [Spec_call_alt EXCEPT !.event = None]

ProbeSpecs ==
  { Spec_call_alt, Spec_byt_glob, Spec_any_alt, Spec_call_any, Spec_BEGIN,
    Spec_upper_bars, Spec_no_mode, Spec_no_event, Spec_no_package,
    Spec_no_provider, Spec_call_begin, Spec_part_missing }

\* the script and the value returned after add_probe(spec, ..)
Returns(out, spec) ==
  /\ providers' = out.providers
  /\ add_probe_result' = Some(out.result)
  /\ probe_spec' = Some(spec)
  /\ add_probe_calls' = add_probe_calls + 1

\* Script::add_probe, called by the parser for one probe definition
add_probe ==
  /\ ~panicked
  /\ add_probe_calls < MaxAddProbes
  /\ \E spec \in ProbeSpecs, h \in HashOrders :
       Returns(add_probe_outcome(providers, h, spec, add_probe_calls + 1), spec)
  /\ UNCHANGED << parser_vars, outside_script >>

\* =================================================================
\* probe_spec_from_rule and process_pair (parser/dtrace_parser.rs)
\* =================================================================
s_colon == <<":">>
s_BEGIN == <<"B","E","G","I","N">>
s_END == <<"E","N","D">>
s_byt_glob == <<"b","y","t","*">>

\* str::starts_with, and str::strip_prefix(pre).unwrap() where it holds
starts_with(s, pre) == Len(s) >= Len(pre) /\ SubSeq(s, 1, Len(pre)) = pre
strip_prefix(s, pre) == SubSeq(s, Len(pre) + 1, Len(s))

\* [String]::join
RECURSIVE join(_, _)
join(contents, sep) ==
  IF contents = <<>> THEN <<>>
  ELSE IF Len(contents) = 1 THEN contents[1]
  ELSE contents[1] \o sep \o join(Tail(contents), sep)

\* a pest Pair: its rule, the text it spans and its inner pairs
PROBE_ID(text) == [rule |-> "PROBE_ID", text |-> text, inner |-> <<>>]

\* the Pair of the rule PROBE_SPEC over `text`: four optional PROBE_IDs
\* between colons, or one PROBE_ID; the inner pairs are the PROBE_IDs present
PairOver(text, ids) ==
  [rule |-> "PROBE_SPEC", text |-> text,
   inner |-> [i \in 1..Len(ids) |-> PROBE_ID(ids[i])]]

PROBE_SPEC(text) ==
  LET NonEmpty(part) == part # <<>>
  IN PairOver(text, SelectSeq(split(text, ":"), NonEmpty))

push_star(st, pre) ==
  [st EXCEPT !.contents = Append(@, s_star), !.s = strip_prefix(@, pre)]

\* `if spec_as_str.starts_with(":") { contents.push("*"); .. }`
push_star_at_colon(st) ==
  IF starts_with(st.s, s_colon) THEN push_star(st, s_colon) ELSE st

\* probe_spec_from_rule: `while spec_as_str.starts_with("::")`
RECURSIVE add_missing_stars(_)
add_missing_stars(st) ==
  IF starts_with(st.s, s_colon \o s_colon)
    THEN add_missing_stars(push_star_at_colon(push_star(st, s_colon \o s_colon)))
    ELSE st

\* `if spec_as_str.starts_with(":") { strip_prefix(":") }`
skip_colon(st) ==
  IF starts_with(st.s, s_colon)
    THEN [st EXCEPT !.s = strip_prefix(@, s_colon)]
    ELSE st

\* probe_spec_from_rule: `while contents.len() < 4`, and the part of its
\* body that follows `parts.next()`
RECURSIVE spec_parts(_), take_part(_, _)
take_part(st, res) ==
  IF ~starts_with(st.s, res)
    THEN [st EXCEPT !.panicked = TRUE]
    ELSE spec_parts(skip_colon(add_missing_stars(
           [contents |-> Append(st.contents, res),
            s |-> strip_prefix(st.s, res),
            parts |-> Tail(st.parts), panicked |-> FALSE])))

spec_parts(st) ==
  IF Len(st.contents) >= 4 \/ st.panicked THEN st
  ELSE IF starts_with(st.s, s_colon) THEN spec_parts(push_star(st, s_colon))
  ELSE IF st.parts = <<>> THEN st
  ELSE take_part(st, IF Head(st.parts).rule = "PROBE_ID"
                       THEN Head(st.parts).text ELSE s_star)

\* probe_spec_from_rule: the special case of one part, and the join
joined(st) ==
  [panicked |-> st.panicked,
   value |-> join(IF Len(st.contents) = 1
                    THEN << s_core, s_star, s_star >> \o st.contents
                    ELSE st.contents,
                  s_colon)]

\* probe_spec_from_rule: the String returned, or a panic of an unwrap()
probe_spec_from_rule(pair) ==
  IF pair.rule = "PROBE_ID"
    THEN [panicked |-> FALSE, value |-> pair.text]
    ELSE joined(spec_parts([contents |-> <<>>, s |-> pair.text,
                            parts |-> pair.inner, panicked |-> FALSE]))

\* the text of a spec with the four parts the user wrote (some empty)
UserSpec(a, b, c, d) == join(<< a, b, c, d >>, s_colon)

\* the PROBE_SPECs of the scripts the parser tests hold valid
PROBE_SPECS ==
  { s_BEGIN, s_END,
    UserSpec(s_wasm, s_bytecode, s_call, s_alt),
    UserSpec(s_wasm, s_bytecode, s_call, s_before),
    UserSpec(s_wasm, s_bytecode, s_call, s_after),
    UserSpec(s_wasm, s_byt_glob, s_call, s_before),
    UserSpec(s_wasm, s_empty, s_call, s_after),
    UserSpec(s_empty, s_empty, s_empty, s_alt),
    UserSpec(s_wasm, s_empty, s_empty, s_empty),
    UserSpec(s_empty, s_bytecode, s_empty, s_empty),
    UserSpec(s_empty, s_empty, s_call, s_empty),
    UserSpec(s_empty, s_empty, s_empty, s_before),
    UserSpec(s_empty, s_bytecode, s_call, s_alt),
    UserSpec(s_wasm, s_empty, s_call, s_alt),
    UserSpec(s_wasm, s_bytecode, s_empty, s_alt),
    UserSpec(s_wasm, s_bytecode, s_br, s_before) }

\* process_pair at Rule::probe_def, from the split of the spec on: the
\* four unwraps, then add_probe
with_split(spec_split, h) ==
  /\ panicked' = (Len(spec_split) < 4)
  /\ IF Len(spec_split) < 4
       THEN UNCHANGED << providers, add_probe_result, add_probe_calls,
                         probe_spec >>
       ELSE Returns(add_probe_outcome(
                      providers, h,
                      ProbeSpecOf(spec_split[1], spec_split[2],
                                  spec_split[3], spec_split[4]),
                      add_probe_calls + 1),
                    ProbeSpecOf(spec_split[1], spec_split[2],
                                spec_split[3], spec_split[4]))

\* process_pair at Rule::probe_def, after probe_spec_from_rule
with_spec(spec, h) ==
  IF spec.panicked
    THEN /\ spec_str' = None
         /\ panicked' = TRUE
         /\ UNCHANGED << providers, add_probe_result, add_probe_calls,
                          probe_spec >>
    ELSE /\ spec_str' = Some(spec.value)
         /\ with_split(split(spec.value, ":"), h)

\* process_pair at Rule::probe_def: the spec is read, split at the colons
\* into provider, module, function and name (four unwraps), and the probe
\* is added to the script
probe_def ==
  /\ ~panicked
  /\ add_probe_calls < MaxAddProbes
  /\ \E text \in PROBE_SPECS, h \in HashOrders :
       /\ spec_rule' = Some(PROBE_SPEC(text))
       /\ with_spec(probe_spec_from_rule(PROBE_SPEC(text)), h)
  /\ UNCHANGED outside_script

NextScript ==
  \/ add_probe
  \/ probe_def

InitScript ==
  /\ Init
  /\ tree = TreeCore
  /\ ast.global_stmts = <<>>

SpecScript == InitScript /\ [][NextScript]_vars

\* ------------------------------------------------- properties of add_probe
\* every (provider, package, event, mode) of the registry
RegistryTuples ==
  UNION { UNION { UNION {
    { << p, k, e, provided_probes[p][k][e][i] >> :
        i \in 1..Len(provided_probes[p][k][e]) } :
      e \in DOMAIN provided_probes[p][k] } :
      k \in DOMAIN provided_probes[p] } :
      p \in DOMAIN provided_probes }

\* every (provider, package, event, mode) the script has a probe list for
StoredTuples ==
  UNION { UNION { UNION {
    { << p, k, e, m >> : m \in DOMAIN providers[p][k][e] } :
      e \in DOMAIN providers[p][k] } :
      k \in DOMAIN providers[p] } :
      p \in DOMAIN providers }

\* the probes the script stores at a tuple
ProbesAt(t) ==
  IF t \in StoredTuples THEN providers[t[1]][t[2]][t[3]][t[4]] ELSE <<>>

\* the probes at a tuple that the add_probe call number n inserted
InsertedAt(t, n) == { j \in 1..Len(ProbesAt(t)) : ProbesAt(t)[j].body = n }

FourParts(spec) ==
  /\ spec.provider # None
  /\ spec.package # None
  /\ spec.event # None
  /\ spec.mode # None

\* a part's glob, with its `|` alternatives, matches a registry name
PartMatches(part, name) ==
  matches_globs(to_lowercase(name), get_globs(to_lowercase(part[1].name)))

TupleMatches(spec, t) ==
  /\ PartMatches(spec.provider, t[1])
  /\ PartMatches(spec.package, t[2])
  /\ PartMatches(spec.event, t[3])
  /\ PartMatches(spec.mode, t[4])

\* C16: after add_probe with a four-part spec, the call has inserted one
\* probe at every registry tuple all four of whose names the spec's parts
\* match (globs with `|` alternatives, compared case-insensitively), and no
\* probe at any other tuple.
C16_ExactlyTheMatches ==
  (probe_spec # None /\ FourParts(probe_spec[1])) =>
    /\ \A t \in RegistryTuples :
         Cardinality(InsertedAt(t, add_probe_calls)) =
           IF TupleMatches(probe_spec[1], t) THEN 1 ELSE 0
    /\ \A t \in StoredTuples \ RegistryTuples :
         InsertedAt(t, add_probe_calls) = {}

C16_Witness ==
  /\ probe_spec = Some(Spec_upper_bars)
  /\ add_probe_calls = 2
  /\ add_probe_result = Some(Ok)
  /\ { t \in RegistryTuples : InsertedAt(t, 2) # {} } =
       { << s_wasm, s_bytecode, e, m >> :
           e \in {s_call, s_br}, m \in {s_before, s_after} }
  /\ InsertedAt(<< s_wasm, s_bytecode, s_call, s_alt >>, 1) # {}

\* the levels at which the spec finds no registry entry: no provider, or
\* under a matched provider no package, or under those no event, or no mode
EmptyLevels(spec) ==
  LET Ps == { p \in DOMAIN provided_probes : PartMatches(spec.provider, p) }
      Ks(p) == { k \in DOMAIN provided_probes[p] : PartMatches(spec.package, k) }
      Es(p, k) == { e \in DOMAIN provided_probes[p][k] :
                      PartMatches(spec.event, e) }
      Ms(p, k, e) == { i \in 1..Len(provided_probes[p][k][e]) :
                         PartMatches(spec.mode, provided_probes[p][k][e][i]) }
  IN (IF Ps = {} THEN {"provider"} ELSE {}) \cup
     (IF \E p \in Ps : Ks(p) = {} THEN {"package"} ELSE {}) \cup
     (IF \E p \in Ps : \E k \in Ks(p) : Es(p, k) = {}
        THEN {"event"} ELSE {}) \cup
     (IF \E p \in Ps : \E k \in Ks(p) : \E e \in Es(p, k) : Ms(p, k, e) = {}
        THEN {"mode"} ELSE {})

MatchesNothing(spec) == \A t \in RegistryTuples : ~TupleMatches(spec, t)

\* C17: add_probe with a spec that matches no registry entry at some level
\* returns a parse error whose span is the location of the spec part at a
\* level that had no match, whatever the script already holds.
C17_NoMatchIsParseError ==
  (/\ probe_spec # None
   /\ FourParts(probe_spec[1])
   /\ MatchesNothing(probe_spec[1])) =>
    /\ add_probe_result[1].kind = "ParseError"
    /\ add_probe_result[1].span # None
    /\ add_probe_result[1].span[1] \in EmptyLevels(probe_spec[1])

\* C17 on a script that holds no probe yet
C17_FirstCallOnly ==
  (/\ probe_spec # None
   /\ add_probe_calls = 1
   /\ FourParts(probe_spec[1])
   /\ MatchesNothing(probe_spec[1])) =>
    /\ add_probe_result[1].kind = "ParseError"
    /\ add_probe_result[1].span # None
    /\ add_probe_result[1].span[1] \in EmptyLevels(probe_spec[1])

\* a no-match spec answered Ok(()) while an earlier probe is in the script
C17_SilentNoMatch ==
  /\ probe_spec = Some(Spec_no_mode)
  /\ add_probe_result = Some(Ok)
  /\ InsertedAt(<< s_core, s_empty, s_empty, s_begin >>, 1) # {}

\* C18: every probe stored under key m of an event's probe_map has m in its
\* mode field, also when the spec's mode part was a glob or an alternation.
C18_ModeFieldIsKey ==
  \A t \in StoredTuples :
    \A j \in 1..Len(ProbesAt(t)) : ProbesAt(t)[j].mode = t[4]

\* a probe stored under `alt` whose mode field is the pattern `*`
C18_PatternStored ==
  \E j \in 1..Len(ProbesAt(<< s_wasm, s_bytecode, s_call, s_alt >>)) :
    ProbesAt(<< s_wasm, s_bytecode, s_call, s_alt >>)[j].mode = s_star

\* ------------------------------------- properties of probe_spec_from_rule
\* what the user wrote between the colons of the latest PROBE_SPEC
UserParts == split(spec_rule[1].text, ":")

\* the four components the spec stands for: `*` for a part left empty, and
\* core:*:*:X for the single part X
Expanded(parts) ==
  IF Len(parts) = 1
    THEN << s_core, s_star, s_star, parts[1] >>
    ELSE [i \in 1..Len(parts) |->
            IF parts[i] = <<>> THEN s_star ELSE parts[i]]

\* C19: for every PROBE_SPEC the parser tests hold valid, the string
\* probe_spec_from_rule returns has exactly four colon-separated
\* components, `*` where the user left a part empty, and core:*:*:X for a
\* single-part spec X.
C19_FourComponents ==
  spec_rule # None =>
    /\ spec_str # None
    /\ split(spec_str[1], ":") = Expanded(UserParts)
    /\ Len(split(spec_str[1], ":")) = 4

\* C19 for the specs whose last part is not empty
C19_LastPartGiven ==
  (spec_rule # None /\ UserParts[Len(UserParts)] # <<>>) =>
    /\ spec_str # None
    /\ split(spec_str[1], ":") = Expanded(UserParts)
    /\ Len(split(spec_str[1], ":")) = 4

\* `wasm:::` comes back as the three components wasm:*:*
C19_ThreeComponents ==
  /\ spec_rule # None
  /\ spec_rule[1].text = UserSpec(s_wasm, s_empty, s_empty, s_empty)
  /\ spec_str = Some(join(<< s_wasm, s_star, s_star >>, s_colon))
  /\ panicked

\* a spec with empty leading and middle parts comes back in full
C19_MiddleFilled ==
  /\ spec_rule # None
  /\ spec_rule[1].text = UserSpec(s_wasm, s_empty, s_call, s_after)
  /\ spec_str = Some(UserSpec(s_wasm, s_star, s_call, s_after))
  /\ ~panicked

\* =================================================================
\* SymbolTableBuilder (verifier/builder_visitor.rs)
\* =================================================================
\* ---- SymbolTable: records, and a tree of scopes with a cursor
Record(kind, name, is_comp_provided, loc) ==
  [kind |-> kind, name |-> name, is_comp_provided |-> is_comp_provided,
   loc |-> loc, fns |-> <<>>, globals |-> <<>>, params |-> <<>>,
   scripts |-> <<>>, members |-> <<>>]

\* SymbolTable::get_record
get_record(t, id) == t.records[id + 1]

\* SymbolTable::lookup: the current scope, then its ancestors
RECURSIVE lookup_from(_, _, _)
lookup_from(t, scope, name) ==
  IF scope = 0 THEN None
  ELSE IF name \in DOMAIN t.scopes[scope].names
    THEN Some(t.scopes[scope].names[name])
  ELSE lookup_from(t, t.scopes[scope].parent, name)

lookup(t, name) == lookup_from(t, t.curr_scope, name)

\* SymbolTable::put: the record gets the next id, and the current scope
\* maps the name to it
put(t, name, rec) ==
  [t EXCEPT !.records = Append(@, rec),
            !.scopes[t.curr_scope].names = Put(@, name, Len(t.records))]

\* SymbolTable::enter_scope, as the builder uses it: a new child scope
enter_scope(t) ==
  [t EXCEPT !.scopes = Append(@, [parent |-> t.curr_scope, name |-> "",
                                  ty |-> "", names |-> <<>>]),
            !.curr_scope = Len(t.scopes) + 1]

\* SymbolTable::set_curr_scope_info
set_curr_scope_info(t, name, ty) ==
  [t EXCEPT !.scopes[t.curr_scope].name = name,
            !.scopes[t.curr_scope].ty = ty]

\* SymbolTable::exit_scope
exit_scope(t) == [t EXCEPT !.curr_scope = t.scopes[t.curr_scope].parent]

\* SymbolTable::get_curr_rec_mut: the record the current scope is named after
get_curr_rec(t) == lookup(t, t.scopes[t.curr_scope].name)

\* ---- ErrorGen: the errors the builder reports
duplicate_identifier_error(name, loc, other_loc) ==
  [kind |-> "DuplicateIdentifier", name |-> name,
   loc |-> Some(loc), other |-> Some(other_loc)]
compiler_fn_overload_error(name, loc) ==
  [kind |-> "CompilerFnOverload", name |-> name,
   loc |-> Some(loc), other |-> None]
builder_unexpected_error ==
  [kind |-> "Unexpected", name |-> "", loc |-> None, other |-> None]

\* verifier::check_duplicate_id: the errors it reports; it answers true
\* when the name is already visible
check_duplicate_id(t, name, loc, is_comp_provided) ==
  IF lookup(t, name) = None THEN [dup |-> FALSE, errs |-> <<>>]
  ELSE
    LET other_rec == get_record(t, lookup(t, name)[1])
    IN [dup |-> TRUE,
        errs |->
          IF loc # None /\ other_rec.loc # None
            THEN << duplicate_identifier_error(name, loc[1], other_rec.loc[1]) >>
          ELSE IF loc # None /\ other_rec.is_comp_provided
            THEN << compiler_fn_overload_error(name, loc[1]) >>
          ELSE << builder_unexpected_error >>]

\* ---- the builder; b holds table, err, cursors and the declarations seen
Declare(b, kind, name, loc) ==
  [b EXCEPT !.declared = Append(@, [kind |-> kind, name |-> name, loc |-> loc,
                                    scope |-> b.table.curr_scope])]

\* SymbolTableBuilder::add_param
add_param(b, param) ==
  LET id == Len(b.table.records)
      t1 == put(b.table, param.name, Record("Var", param.name, FALSE, param.loc))
      fn_id == b.cursors.curr_fn[1]
  IN [Declare(b, "param", param.name, param.loc) EXCEPT
        !.table = [t1 EXCEPT !.records[fn_id + 1].params = Append(@, id)]]

RECURSIVE visit_params(_, _)
visit_params(b, params) ==
  IF params = <<>> THEN b
  ELSE visit_params(add_param(b, Head(params)), Tail(params))

fn_conflict_errors_mut(t, f) == <<>>

\* add_fn: what it reports when the function's name is already visible
fn_conflict_errors(t, f) ==
  IF lookup(t, f.name) = None THEN <<>>
  ELSE
    LET other_rec == get_record(t, lookup(t, f.name)[1])
    IN IF f.loc # None /\ other_rec.loc # None
         THEN << duplicate_identifier_error(f.name, f.loc[1], other_rec.loc[1]) >>
       ELSE IF f.loc = None THEN << builder_unexpected_error >>
       ELSE IF other_rec.kind = "Fn" /\ other_rec.is_comp_provided
         THEN << compiler_fn_overload_error(f.name, f.loc[1]) >>
       ELSE << builder_unexpected_error >>

\* the records that hold fns and globals
ContainerKinds == {"Whamm", "Script", "Provider", "Package", "Event", "Probe"}

\* SymbolTableBuilder::add_fn_id_to_curr_rec / add_global_id_to_curr_rec
add_id_to_curr_rec(b, field, id) ==
  LET cr == get_curr_rec(b.table)
  IN IF cr # None /\ get_record(b.table, cr[1]).kind \in ContainerKinds
       THEN [b EXCEPT !.table.records[cr[1] + 1][field] = Append(@, id)]
       ELSE [b EXCEPT !.err = Append(@, builder_unexpected_error)]

\* SymbolTableBuilder::add_fn
add_fn(b, f) ==
  LET id == Len(b.table.records)
      b0 == Declare(b, "fn", f.name, f.loc)
      b1 == [b0 EXCEPT
               !.err = @ \o fn_conflict_errors(b.table, f),
               !.table = put(@, f.name,
                             Record("Fn", f.name, f.is_comp_provided, f.loc))]
      b2 == add_id_to_curr_rec(b1, "fns", id)
      b3 == [b2 EXCEPT
               !.table = set_curr_scope_info(enter_scope(@), f.name, "Fn"),
               !.cursors.curr_fn = Some(id)]
  IN visit_params(b3, f.params)

\* visit_fn: add_fn, then the function's scope is left
VisitFn(b, f) ==
  [add_fn(b, f) EXCEPT !.table = exit_scope(@), !.cursors.curr_fn = None]

\* SymbolTableBuilder::add_global
add_global(b, name, is_comp_provided, loc) ==
  LET chk == check_duplicate_id(b.table, name, loc, is_comp_provided)
      b0 == Declare(b, "global", name, loc)
      id == Len(b.table.records)
  IN IF chk.dup
       THEN [b0 EXCEPT !.err = @ \o chk.errs]
       ELSE add_id_to_curr_rec(
              [b0 EXCEPT !.table = put(@, name,
                                       Record("Var", name, is_comp_provided, loc))],
              "globals", id)

Bundle == [table |-> table, err |-> sym_err, cursors |-> cursors,
           declared |-> declared]

Becomes(b) ==
  /\ table' = b.table
  /\ sym_err' = b.err
  /\ cursors' = b.cursors
  /\ declared' = b.declared

\* Whamm::get_provided_fns
strcmp ==
  [name |-> "strcmp", is_comp_provided |-> TRUE, loc |-> None,
   params |-> << [name |-> "str_addr", loc |-> None],
                 [name |-> "value", loc |-> None] >>]

\* the source location the next user declaration is read at
next_loc == Len(declared) + 1

\* the user's declarations of functions and globals so far
UserDecls ==
  { j \in DOMAIN declared :
      declared[j].kind \in {"fn", "global"} /\ declared[j].loc # None }

\* a user-defined function of the script; params are named in `names`
UserFn(name, names) ==
  [name |-> name, is_comp_provided |-> FALSE, loc |-> Some(next_loc),
   params |-> [i \in 1..Len(names) |->
                 [name |-> names[i], loc |-> Some(next_loc + i)]]]

UserFns ==
  { UserFn("f", <<>>), UserFn("f", << "a", "b" >>), UserFn("f", << "a", "a" >>),
    UserFn("strcmp", <<>>) }

GlobalNames == {"f", "g", "strcmp"}

\* visit_whamm up to the scripts: the whamm record, then the functions the
\* compiler provides
visit_whamm ==
  /\ sym_phase = "new"
  /\ LET id == Len(table.records)
         b1 == [Bundle EXCEPT
                  !.table = put(set_curr_scope_info(@, "whamm", "Whamm"),
                                "whamm", Record("Whamm", "whamm", TRUE, None)),
                  !.cursors.curr_whamm = Some(id)]
     IN Becomes(VisitFn(b1, strcmp))
  /\ sym_phase' = "whamm"
  /\ UNCHANGED outside_symtab

\* visit_script up to the script's functions: add_script
visit_script ==
  /\ sym_phase = "whamm"
  /\ LET name == "script0"
         chk == check_duplicate_id(table, name, None, TRUE)
         id == Len(table.records)
         t1 == put(table, name, Record("Script", name, TRUE, None))
         t2 == [t1 EXCEPT !.records[cursors.curr_whamm[1] + 1].scripts =
                            Append(@, id)]
     IN IF chk.dup
          THEN Becomes([Bundle EXCEPT !.err = @ \o chk.errs])
          ELSE Becomes([Bundle EXCEPT
                          !.table = set_curr_scope_info(enter_scope(t2),
                                                        name, "Script"),
                          !.cursors.curr_script = Some(id)])
  /\ sym_phase' = "fns"
  /\ UNCHANGED outside_symtab

\* visit_fn on a function of script.fns
visit_fn ==
  /\ sym_phase = "fns"
  /\ Cardinality(UserDecls) < MaxDecls
  /\ \E f \in UserFns : Becomes(VisitFn(Bundle, f))
  /\ UNCHANGED << sym_phase, outside_symtab >>

\* visit_stmt on a declaration of script.global_stmts
visit_stmt ==
  /\ sym_phase \in {"fns", "globals"}
  /\ Cardinality(UserDecls) < MaxDecls
  /\ \E name \in GlobalNames :
       Becomes(add_global(Bundle, name, FALSE, Some(next_loc)))
  /\ sym_phase' = "globals"
  /\ UNCHANGED outside_symtab

\* ---- the containers of a script: providers, packages, events, probes
\* a container of the AST: its fns, and the containers it holds in the
\* order the visit takes them
Container(kind, name, fns, members) ==
  [kind |-> kind, name |-> name, fns |-> fns, members |-> members]

\* a function the compiler provides for an event
alt_call_by_name ==
  [name |-> "alt_call_by_name", is_comp_provided |-> TRUE, loc |-> None,
   params |-> <<>>]

\* the probes of one event, by mode: the probes of one mode are one Vec of
\* probe_map, so they follow one another
Grouped(modes) ==
  \A i \in 1..Len(modes) : \A k \in i..Len(modes) :
    modes[i] = modes[k] => \A j \in i..k : modes[j] = modes[i]

ModeLists ==
  { modes \in UNION { [1..n -> {"before", "alt"}] : n \in 1..MaxModeProbes } :
      Grouped(modes) }

EventOf(name, modes) ==
  Container("Event", name,
            IF name = "call" THEN << alt_call_by_name >> ELSE <<>>,
            [i \in 1..Len(modes) |-> Container("Probe", modes[i], <<>>, <<>>)])

\* the events of a package are a HashMap: one event per name, in any order
EventLists ==
  { << EventOf("call", m) >> : m \in ModeLists }
    \cup { << EventOf("call", m1), EventOf("br", m2) >> :
           m1 \in ModeLists, m2 \in ModeLists }
    \cup { << EventOf("br", m2), EventOf("call", m1) >> :
           m1 \in ModeLists, m2 \in ModeLists }

ProviderLists ==
  UNION { { << Container("Provider", "wasm", <<>>,
                         << Container("Package", "bytecode", <<>>, evs) >>) >>,
            << Container("Provider", "wasm", <<>>,
                         << Container("Package", "bytecode", <<>>, evs) >>),
               Container("Provider", "core", <<>>, <<>>) >> }
          : evs \in EventLists }

\* the cursor add_<kind> sets, and the one of the record it extends
CursorOf ==
  [Provider |-> "curr_provider", Package |-> "curr_package",
   Event |-> "curr_event", Probe |-> "curr_probe"]
ParentCursorOf ==
  [Provider |-> "curr_script", Package |-> "curr_provider",
   Event |-> "curr_package", Probe |-> "curr_event"]
ParentKindOf ==
  [Provider |-> "Script", Package |-> "Provider", Event |-> "Package",
   Probe |-> "Event"]

\* SymbolTable::exit_scope as the builder calls it: without a parent scope
\* it answers Err and the builder adds the error
Builder_exit_scope(b) ==
  IF b.table.scopes[b.table.curr_scope].parent = 0
    THEN [b EXCEPT !.err = Append(@, builder_unexpected_error)]
    ELSE [b EXCEPT !.table = exit_scope(@)]

\* add_provider, add_package, add_event, add_probe after the duplicate
\* check passed: the record, its id in the parent's record, the new scope
add_container_new(b, node, id, parent) ==
  [b EXCEPT
     !.table =
       set_curr_scope_info(
         enter_scope(
           IF get_record(b.table, parent).kind = ParentKindOf[node.kind]
             THEN [put(b.table, node.name,
                       Record(node.kind, node.name, TRUE, None))
                     EXCEPT !.records[parent + 1].members = Append(@, id)]
             ELSE put(b.table, node.name,
                      Record(node.kind, node.name, TRUE, None))),
         node.name, node.kind),
     !.err = IF get_record(b.table, parent).kind = ParentKindOf[node.kind]
               THEN @ ELSE Append(@, builder_unexpected_error),
     !.cursors[CursorOf[node.kind]] = Some(id)]

add_container_checked_mut(b, node, chk) ==
  add_container_new(b, node, Len(b.table.records),
                    b.cursors[ParentCursorOf[node.kind]][1])

\* add_provider, add_package, add_event, add_probe: a duplicate name is
\* reported and nothing else is done
add_container_checked(b, node, chk) ==
  IF chk.dup
    THEN [b EXCEPT !.err = @ \o chk.errs]
    ELSE add_container_new(b, node, Len(b.table.records),
                           b.cursors[ParentCursorOf[node.kind]][1])

add_container(b, node) ==
  add_container_checked(b, node,
                        check_duplicate_id(b.table, node.name, None, TRUE))

\* `self.curr_<parent>.unwrap()` of a cursor that is None
Unwraps_none(b, node) ==
  /\ ~check_duplicate_id(b.table, node.name, None, TRUE).dup
  /\ b.cursors[ParentCursorOf[node.kind]] = None

\* what a visit goes through after add_*: the fns, then the containers
members_of(node) ==
  [i \in 1..Len(node.fns) |-> [kind |-> "Fn", f |-> node.fns[i]]]
    \o node.members

\* a visit_* that has not returned: its node, what is left to visit, the
\* scope the table was in when the visit began, the calls of
\* table.enter_scope and table.exit_scope made during the visit so far,
\* and whether a duplicate was reported during it
Visit(node, scope, enters, is_dup) ==
  [node |-> node, todo |-> members_of(node), scope |-> scope,
   enters |-> enters, exits |-> 0, is_dup |-> is_dup]

Visited(v, after) ==
  [kind |-> v.node.kind, name |-> v.node.name, before |-> v.scope,
   after |-> after, enters |-> v.enters, exits |-> v.exits,
   is_dup |-> v.is_dup]

Script0 == Container("Script", "script0", <<>>, <<>>)

\* the callee has returned: the caller goes on after it
returned_to(stk, v) ==
  [stk EXCEPT ![Len(stk)] =
     [@ EXCEPT !.todo = Tail(@), !.enters = @ + v.enters,
               !.exits = @ + v.exits, !.is_dup = @ \/ v.is_dup]]

InVisit ==
  /\ sym_phase = "providers"
  /\ sym_stack # <<>>

VisitsNext(kind) ==
  /\ InVisit
  /\ Last(sym_stack).todo # <<>>
  /\ Head(Last(sym_stack).todo).kind = kind

VisitEnds(kind) ==
  /\ InVisit
  /\ Last(sym_stack).todo = <<>>
  /\ Last(sym_stack).node.kind = kind

\* visit_<kind> up to the first member: add_<kind>
Enters(stk, node) ==
  IF Unwraps_none(Bundle, node)
    THEN /\ sym_phase' = "panicked"
         /\ UNCHANGED << symtab_state, sym_stack, sym_done >>
    ELSE /\ Becomes(add_container(Bundle, node))
         /\ sym_stack' =
              Append(stk,
                     Visit(node, table.curr_scope,
                           IF check_duplicate_id(table, node.name, None, TRUE).dup
                             THEN 0 ELSE 1,
                           check_duplicate_id(table, node.name, None, TRUE).dup))
         /\ sym_phase' = "providers"
         /\ UNCHANGED sym_done

\* the end of visit_<kind>: exit_scope, the cursor is cleared
Leaves(kind) ==
  /\ Becomes([Builder_exit_scope(Bundle) EXCEPT !.cursors[CursorOf[kind]] = None])
  /\ sym_done' = Some(Visited([Last(sym_stack) EXCEPT !.exits = @ + 1],
                              table'.curr_scope))
  /\ sym_stack' = returned_to(Front(sym_stack),
                              [Last(sym_stack) EXCEPT !.exits = @ + 1])
  /\ UNCHANGED << sym_phase, outside_walk >>

\* visit_provider up to its first package; the first one is called by
\* visit_script after the script's fns and globals
SymbolTableBuilder_visit_provider ==
  /\ \/ /\ sym_phase = "fns"
        /\ sym_stack = <<>>
        /\ \E ps \in ProviderLists :
             Enters(<< [Visit(Script0, table.curr_scope, 0, FALSE)
                          EXCEPT !.todo = ps] >>,
                    Head(ps))
     \/ /\ VisitsNext("Provider")
        /\ Enters(sym_stack, Head(Last(sym_stack).todo))
  /\ UNCHANGED outside_walk

SymbolTableBuilder_visit_package ==
  /\ VisitsNext("Package")
  /\ Enters(sym_stack, Head(Last(sym_stack).todo))
  /\ UNCHANGED outside_walk

SymbolTableBuilder_visit_event ==
  /\ VisitsNext("Event")
  /\ Enters(sym_stack, Head(Last(sym_stack).todo))
  /\ UNCHANGED outside_walk

SymbolTableBuilder_visit_probe ==
  /\ VisitsNext("Probe")
  /\ Enters(sym_stack, Head(Last(sym_stack).todo))
  /\ UNCHANGED outside_walk

\* visit_fn on a function of a provider, package, event or probe
SymbolTableBuilder_visit_fn ==
  /\ VisitsNext("Fn")
  /\ Becomes(VisitFn(Bundle, Head(Last(sym_stack).todo).f))
  /\ sym_done' =
       Some([kind |-> "Fn", name |-> Head(Last(sym_stack).todo).f.name,
             before |-> table.curr_scope, after |-> table'.curr_scope,
             enters |-> 1, exits |-> 1, is_dup |-> FALSE])
  /\ sym_stack' = returned_to(sym_stack,
                              [enters |-> 1, exits |-> 1, is_dup |-> FALSE])
  /\ UNCHANGED << sym_phase, outside_walk >>

visit_provider_exit ==
  /\ VisitEnds("Provider")
  /\ Leaves("Provider")

visit_package_exit ==
  /\ VisitEnds("Package")
  /\ Leaves("Package")

visit_event_exit ==
  /\ VisitEnds("Event")
  /\ Leaves("Event")

visit_probe_exit ==
  /\ VisitEnds("Probe")
  /\ Leaves("Probe")

\* the end of visit_script
visit_script_exit ==
  /\ sym_phase \in {"fns", "globals", "providers"}
  /\ sym_phase = "providers" => Len(sym_stack) = 1 /\ sym_stack[1].todo = <<>>
  /\ Becomes([Builder_exit_scope(Bundle) EXCEPT !.cursors.curr_script = None])
  /\ sym_phase' = "done"
  /\ UNCHANGED outside_symtab

NextSymtab ==
  \/ visit_whamm
  \/ visit_script
  \/ visit_fn
  \/ visit_stmt
  \/ visit_script_exit

InitSymtab ==
  /\ Init
  /\ tree = TreeCore
  /\ ast.global_stmts = <<>>

SpecSymtab == InitSymtab /\ [][NextSymtab]_vars

NextSymtabVisit ==
  \/ visit_whamm
  \/ visit_script
  \/ SymbolTableBuilder_visit_provider
  \/ SymbolTableBuilder_visit_package
  \/ SymbolTableBuilder_visit_event
  \/ SymbolTableBuilder_visit_probe
  \/ SymbolTableBuilder_visit_fn
  \/ visit_probe_exit
  \/ visit_event_exit
  \/ visit_package_exit
  \/ visit_provider_exit
  \/ visit_script_exit

\* visit_whamm on a script whose providers hold packages, events and probes
SpecSymtabVisit == InitSymtab /\ [][NextSymtabVisit]_vars

\* --------------------------------------- properties of SymbolTableBuilder
\* two declarations of one name in one scope, both with a source location
LocatedPairs ==
  { << i, j >> \in (DOMAIN declared) \X (DOMAIN declared) :
      /\ i < j
      /\ declared[i].name = declared[j].name
      /\ declared[i].scope = declared[j].scope
      /\ declared[i].loc # None
      /\ declared[j].loc # None }

\* the duplicate-identifier errors that reference both locations
DupErrors(i, j) ==
  { k \in DOMAIN sym_err :
      /\ sym_err[k].kind = "DuplicateIdentifier"
      /\ { sym_err[k].loc[1], sym_err[k].other[1] } =
           { declared[i].loc[1], declared[j].loc[1] } }

\* the names of the functions the compiler provides
CompilerFnNames ==
  { declared[i].name : i \in { j \in DOMAIN declared :
                                 declared[j].kind = "fn" /\ declared[j].loc = None } }

OverloadErrors(j) ==
  { k \in DOMAIN sym_err :
      /\ sym_err[k].kind = "CompilerFnOverload"
      /\ sym_err[k].name = declared[j].name
      /\ sym_err[k].loc = declared[j].loc }

\* C20: for every pair of declarations of one name in one scope that both
\* carry a source location there is exactly one duplicate-identifier error,
\* and it references both locations; a user declaration named as a function
\* the compiler provides has a compiler-function-overload error.
C20_DuplicatesReported ==
  /\ \A pr \in LocatedPairs : Cardinality(DupErrors(pr[1], pr[2])) = 1
  /\ \A j \in UserDecls :
       declared[j].name \in CompilerFnNames =>
         \/ Cardinality(OverloadErrors(j)) = 1
         \/ \E i \in UserDecls : i < j /\ declared[i].name = declared[j].name

\* C20 for two functions or globals of a name the compiler does not use
\* and that nothing else declares
C20_TwoFnsOrGlobals ==
  \A pr \in LocatedPairs :
    (/\ declared[pr[1]].kind # "param"
     /\ declared[pr[1]].name \notin CompilerFnNames
     /\ ~\E k \in DOMAIN declared \ {pr[1], pr[2]} :
           /\ declared[k].name = declared[pr[1]].name
           /\ declared[k].scope = declared[pr[1]].scope) =>
      Cardinality(DupErrors(pr[1], pr[2])) = 1

\* the first user declaration of a compiler function's name is reported as
\* an overload, not as a duplicate
C20_OverloadReported ==
  \A j \in UserDecls :
    (/\ declared[j].name \in CompilerFnNames
     /\ ~\E i \in UserDecls : i < j /\ declared[i].name = declared[j].name) =>
      /\ Cardinality(OverloadErrors(j)) = 1
      /\ ~\E k \in DOMAIN sym_err :
            /\ sym_err[k].kind = "DuplicateIdentifier"
            /\ sym_err[k].loc = declared[j].loc

\* two parameters of one name in one function, and no error at all
C20_DuplicateParamUnreported ==
  /\ sym_err = <<>>
  /\ \E pr \in LocatedPairs : declared[pr[1]].kind = "param"

\* three functions of one name, and two duplicate-identifier errors
C20_ThreeFnsTwoErrors ==
  /\ Cardinality({ j \in UserDecls :
                     declared[j].kind = "fn" /\ declared[j].name = "f" }) = 3
  /\ Len(sym_err) = 2

\* =================================================================
\* The function emit_dtrace_strcmp_fn synthesizes (generator/emitters.rs)
\* =================================================================
\* i32 values are kept as two's complement numbers
I32Max == 2147483647

\* the bytes the host writes: one below and one above 128
Bytes == {0, 200}
Memories == [1..MemSize -> Bytes]

\* an offset may lie past the end of the memory
Offsets == 0..MemSize
Sizes == 0..MaxStrSize

\* LoadKind::I32_8 { kind: ExtendedLoad::SignExtend }
SignExtend8(b) == IF b >= 128 THEN b - 256 ELSE b

\* BinaryOp::I32Add, for b >= 0: the sum wraps around past I32Max
I32Add(a, b) ==
  IF a > I32Max - b THEN (a - I32Max - 1) + (b - I32Max - 1) ELSE a + b

\* BinaryOp::I32Eq, I32Ne and I32LtU leave 1 or 0 on the stack
I32Eq(a, b) == IF a = b THEN 1 ELSE 0
I32Ne(a, b) == IF a # b THEN 1 ELSE 0
I32LtU(a, b) ==
  IF (a < 0) = (b < 0)
    THEN IF a < b THEN 1 ELSE 0
    ELSE IF b < 0 THEN 1 ELSE 0

\* br_if(label): the branch is taken when the operand is not zero
br_if(cond, label, fallthrough) ==
  pc' = IF cond # 0 THEN label ELSE fallthrough

\* the host writes the memory and calls the function
strcmp_call ==
  /\ pc = "idle"
  /\ \E m \in Memories, o0 \in Offsets, s0 \in Sizes, o1 \in Offsets,
        s1 \in Sizes :
       /\ memory' = m
       /\ locals' = [str0_offset |-> o0, str0_size |-> s0, str1_offset |-> o1,
                     str1_size |-> s1, i |-> 0, str0_char |-> 0,
                     str1_char |-> 0]
  /\ pc' = "check_sizes"
  /\ returned' = None
  /\ UNCHANGED outside_strcmp

\* "1. Check if sizes are equal, if not return 0": I32Eq, br_if(neq)
check_sizes ==
  /\ pc = "check_sizes"
  /\ br_if(I32Eq(locals.str0_size, locals.str1_size), "neq", "check_offsets")
  /\ UNCHANGED << memory, locals, returned, outside_strcmp >>

\* "2. Check if mem offset is equal": I32Eq, br_if(eq)
check_offsets ==
  /\ pc = "check_offsets"
  /\ br_if(I32Eq(locals.str0_offset, locals.str1_offset), "eq", "init_i")
  /\ UNCHANGED << memory, locals, returned, outside_strcmp >>

\* i32_const(0), local_set(i), and the loop is entered
init_i ==
  /\ pc = "init_i"
  /\ locals' = [locals EXCEPT !.i = 0]
  /\ pc' = "cmp_char"
  /\ UNCHANGED << memory, returned, outside_strcmp >>

\* "Check if we've reached the end of the string": (i <u str0_size) == 0
cmp_char ==
  /\ pc = "cmp_char"
  /\ br_if(I32Eq(I32LtU(locals.i, locals.str0_size), 0), "eq", "load_str0")
  /\ UNCHANGED << memory, locals, returned, outside_strcmp >>

\* load(memory_id, I32_8 SignExtend, offset 0) at addr: a load past the end
\* of the memory traps
load_into(addr, local, next) ==
  IF addr < 0 \/ addr >= MemSize
    THEN /\ pc' = "trapped"
         /\ UNCHANGED locals
    ELSE /\ locals' = [locals EXCEPT ![local] = SignExtend8(memory[addr + 1])]
         /\ pc' = next

\* "get char for str0"
load_str0_char ==
  /\ pc = "load_str0"
  /\ load_into(I32Add(locals.str0_offset, locals.i), "str0_char", "load_str1")
  /\ UNCHANGED << memory, returned, outside_strcmp >>

\* "get char for str1"
load_str1_char ==
  /\ pc = "load_str1"
  /\ load_into(I32Add(locals.str1_offset, locals.i), "str1_char", "compare")
  /\ UNCHANGED << memory, returned, outside_strcmp >>

\* "compare the two chars": I32Ne, br_if(neq)
compare_chars ==
  /\ pc = "compare"
  /\ br_if(I32Ne(locals.str0_char, locals.str1_char), "neq", "increment")
  /\ UNCHANGED << memory, locals, returned, outside_strcmp >>

\* "Increment i and continue loop": br(cmp_char); the br_if(eq) that
\* follows the loop is never reached
increment_i ==
  /\ pc = "increment"
  /\ locals' = [locals EXCEPT !.i = I32Add(@, 1)]
  /\ pc' = "cmp_char"
  /\ UNCHANGED << memory, returned, outside_strcmp >>

\* after eq_block: "they are equal, return '1'"
return_one ==
  /\ pc = "eq"
  /\ returned' = Some(1)
  /\ pc' = "returned"
  /\ UNCHANGED << memory, locals, outside_strcmp >>

\* after neq_block: "they are not equal, return '0'"
return_zero ==
  /\ pc = "neq"
  /\ returned' = Some(0)
  /\ pc' = "returned"
  /\ UNCHANGED << memory, locals, outside_strcmp >>

NextStrcmp ==
  \/ strcmp_call
  \/ check_sizes
  \/ check_offsets
  \/ init_i
  \/ cmp_char
  \/ load_str0_char
  \/ load_str1_char
  \/ compare_chars
  \/ increment_i
  \/ return_one
  \/ return_zero

\* the driver stands still while the function runs
InitStrcmp ==
  /\ Init
  /\ tree = TreeCore
  /\ ast.global_stmts = <<>>

SpecStrcmp == InitStrcmp /\ [][NextStrcmp]_vars

\* ---- C21
\* the two memory ranges of the call lie inside the memory
RangesInMemory ==
  /\ locals.str0_offset + locals.str0_size <= MemSize
  /\ locals.str1_offset + locals.str1_size <= MemSize

\* the bytes of the two ranges are equal one by one
SameBytes ==
  \A k \in 1..locals.str0_size :
    memory[locals.str0_offset + k] = memory[locals.str1_offset + k]

\* what the function is said to return for the call's arguments
strcmp_contract ==
  IF locals.str0_size # locals.str1_size THEN 0
  ELSE IF locals.str0_offset = locals.str1_offset THEN 1
  ELSE IF SameBytes THEN 1
  ELSE 0

\* C21: called with (str0_offset, str0_size, str1_offset, str1_size), the
\* synthesized function returns 0 when the sizes differ, 1 when the sizes
\* and the offsets are equal, and otherwise 1 exactly when the two memory
\* ranges hold the same bytes
C21_StrcmpContract ==
  (pc = "returned" /\ RangesInMemory) => returned = Some(strcmp_contract)

\* what the body does: equal sizes leave through neq_block at once
C21_EqualSizesReturnZero ==
  (pc = "returned" /\ locals.str0_size = locals.str1_size)
    => returned = Some(0)

\* one string compared with itself is reported as different
C21_SameStringDiffers ==
  /\ pc = "returned"
  /\ locals.str0_size = 1
  /\ locals.str1_size = 1
  /\ locals.str0_offset = locals.str1_offset
  /\ returned = Some(0)

\* strings of different sizes are reported as equal
C21_DifferentSizesEqual ==
  /\ pc = "returned"
  /\ RangesInMemory
  /\ locals.str0_size # locals.str1_size
  /\ returned = Some(1)

\* =================================================================
\* CodeGenerator and WasmRewritingEmitter (generator/code_generator.rs,
\* generator/emitters.rs)
\* =================================================================
\* ---- the AST generate() is given: Dtrace, Dscript, Provider, Module,
\* Function, Probe and Fn, with the fields the generator reads
s_dtrace == <<"d","t","r","a","c","e">>
s_dscript0 == <<"d","s","c","r","i","p","t","0">>

AstFn(name, is_provided) ==
  [kind |-> "fn", name |-> name, is_provided |-> is_provided]
F_strcmp == AstFn("strcmp", TRUE)
F_provided == AstFn("f", TRUE)
F_user == AstFn("f", FALSE)

AstProbe(fns) == [kind |-> "probe", name |-> s_before, fns |-> fns]
AstFunction(fns) ==
  [kind |-> "function", name |-> s_call, fns |-> fns,
   probes |-> << AstProbe(fns) >>]
AstModule(fns) ==
  [kind |-> "module", name |-> s_bytecode, fns |-> fns,
   functions |-> << AstFunction(fns) >>]
AstProvider(fns, modules) ==
  [kind |-> "provider", name |-> s_wasm, fns |-> fns, modules |-> modules]
AstDscript(fns, globals, provs) ==
  [kind |-> "dscript", name |-> s_dscript0, fns |-> fns, globals |-> globals,
   providers |-> provs]
AstDtrace(fns, dscripts) ==
  [kind |-> "dtrace", fns |-> fns, dscripts |-> dscripts]

\* the fns of the dtrace, and the fns below it
TopFns == { <<>>, << F_strcmp >>, << F_provided >>, << F_user >> }
DeepFns == { <<>>, << F_strcmp >> }
AstProviders ==
  { AstProvider(f, m) :
      f \in DeepFns, m \in {<<>>} \cup { << AstModule(d) >> : d \in DeepFns } }
AstDscripts ==
  { AstDscript(f, g, p) :
      f \in DeepFns, g \in { <<>>, << "g" >> },
      p \in {<<>>} \cup { << x >> : x \in AstProviders } }
Dtraces ==
  { AstDtrace(f, [i \in 1..k |-> d]) :
      f \in TopFns, d \in AstDscripts, k \in 0..MaxScripts }

\* ---- the emitter
\* Record::Fn and Record::Var as the builder creates them: addr is None
FnRecord(name) ==
  [kind |-> "Fn", name |-> name, is_comp_provided |-> TRUE, addr |-> None]
VarRecord(name) ==
  [kind |-> "Var", name |-> name, is_comp_provided |-> FALSE, addr |-> None]

\* some script of the dtrace declares a global
declares_global(d) ==
  \E i \in 1..Len(d.dscripts) : d.dscripts[i].globals # <<>>

\* the table the builder hands over; names are looked up through the
\* ancestors, and the model keeps the builder's records in the root scope,
\* where every scope of the generator's walk finds them
table_with_globals(t, d) ==
  IF declares_global(d) THEN put(t, "g", VarRecord("g")) ELSE t

table_of(d) ==
  table_with_globals(
    put([records |-> <<>>,
         scopes |-> << [parent |-> 0, name |-> "", ty |-> "", names |-> <<>>] >>,
         curr_scope |-> 1],
        "strcmp", FnRecord("strcmp")),
    d)

\* WasmRewritingEmitter::new; funcs counts the functions of app_wasm, the
\* next one gets that number as its FunctionId
WasmRewritingEmitter_new(app_funcs, has_memory, tbl) ==
  [kind |-> "WasmRewritingEmitter", table |-> tbl, funcs |-> app_funcs,
   has_memory |-> has_memory, strcmp |-> None]

\* some other implementation of the trait Emitter
OtherEmitter(tbl) ==
  [kind |-> "Emitter", table |-> tbl, funcs |-> 0, has_memory |-> TRUE,
   strcmp |-> None]

Emitters(d) ==
  { WasmRewritingEmitter_new(1, m, table_of(d)) : m \in BOOLEAN }
    \cup { OtherEmitter(table_of(d)) }

fn_providing_contexts == { s_dtrace }

\* what an emitter call leaves: the emitter, the bool returned, or a panic
Answer(e, ans) == [emitter |-> e, ans |-> ans, panicked |-> FALSE]
Panic(e) == [emitter |-> e, ans |-> FALSE, panicked |-> TRUE]

\* Emitter::enter_scope and exit_scope of WasmRewritingEmitter
Emitter_enter_scope(e) ==
  IF e.kind = "WasmRewritingEmitter"
    THEN [e EXCEPT !.table = enter_scope(@)] ELSE e
Emitter_exit_scope(e) ==
  IF e.kind = "WasmRewritingEmitter"
    THEN [e EXCEPT !.table = exit_scope(@)] ELSE e

\* `Some(Record::Fn { mut addr, .. }) => { addr = Some(strcmp_id); true }`:
\* `mut addr` binds a copy of the field, the assignment changes the copy
assign_addr(t, rec_id, strcmp_id) == t

\* emit_dtrace_strcmp_fn from `strcmp.finish(..)` on, with the record id
\* the lookup found
strcmp_finished(e, rec) ==
  IF rec = None
    THEN Answer([e EXCEPT !.funcs = @ + 1,
                          !.strcmp = Some([ret |-> FALSE, id |-> e.funcs,
                                           rec_id |-> None])],
                FALSE)
    ELSE Answer([e EXCEPT !.funcs = @ + 1,
                          !.table = IF get_record(e.table, rec[1]).kind = "Fn"
                                      THEN assign_addr(@, rec[1], e.funcs)
                                      ELSE @,
                          !.strcmp = Some([ret |-> get_record(e.table, rec[1]).kind = "Fn",
                                           id |-> e.funcs, rec_id |-> rec])],
                get_record(e.table, rec[1]).kind = "Fn")

\* WasmRewritingEmitter::emit_dtrace_strcmp_fn
emit_dtrace_strcmp_fn(e, f) ==
  IF ~e.has_memory THEN Panic(e)
  ELSE strcmp_finished(e, lookup(e.table, f.name))

\* WasmRewritingEmitter::emit_provided_fn
emit_provided_fn(e, context, f) ==
  IF context = s_dtrace /\ f.name = "strcmp"
    THEN emit_dtrace_strcmp_fn(e, f)
    ELSE Answer(e, FALSE)

\* WasmRewritingEmitter::emit_fn, after its table.enter_scope()
emit_fn_entered(e, context, f) ==
  IF f.is_provided
    THEN IF context \in fn_providing_contexts
           THEN emit_provided_fn(e, context, f)
           ELSE Answer(e, FALSE)
    ELSE Panic(e)

\* WasmRewritingEmitter::emit_fn
emit_fn(e, context, f) ==
  emit_fn_entered([e EXCEPT !.table = enter_scope(@)], context, f)

\* WasmRewritingEmitter::emit_global, with what the lookup found
emit_global_found(e, rec) ==
  IF rec = None THEN Answer(e, FALSE)
  ELSE IF get_record(e.table, rec[1]).kind = "Var" THEN Panic(e)
  ELSE Answer(e, FALSE)

emit_global(e, name) == emit_global_found(e, lookup(e.table, name))

\* WasmRewritingEmitter::emit_provider: emit_module is todo!()
emit_provider(e, provider) ==
  IF provider.modules = <<>> THEN Answer(e, TRUE) ELSE Panic(e)

\* the outcomes of the call emit_<call>(arg) on the emitter e: that of
\* WasmRewritingEmitter, or either bool from another implementation
Emits(e, call, context, arg) ==
  IF e.kind # "WasmRewritingEmitter"
    THEN { Answer(e, b) : b \in BOOLEAN }
    ELSE { CASE call = "emit_dtrace" -> Answer(e, TRUE)
             [] call = "emit_dscript" -> Answer(e, TRUE)
             [] call = "emit_provider" -> emit_provider(e, arg)
             [] call = "emit_function" -> Panic(e)
             [] call = "emit_probe" -> Panic(e)
             [] call = "emit_fn" -> emit_fn(e, context, arg)
             [] call = "emit_global" -> emit_global(e, arg)
             [] OTHER -> Answer(e, TRUE) }

\* ---- the generator
\* `self.context_name += &format!(":{}", name)`
context_with(context, name) == context \o s_colon \o name

\* str::rfind(":"), as a count of the characters before the last colon
rfind(s, c) ==
  IF \E i \in 1..Len(s) : s[i] = c
    THEN Some((CHOOSE i \in 1..Len(s) :
                 s[i] = c /\ \A j \in (i + 1)..Len(s) : s[j] # c) - 1)
    ELSE None

\* `self.context_name[..self.context_name.rfind(":").unwrap()].to_string()`
context_without_last(context) == SubSeq(context, 1, rfind(context, ":")[1])

\* the nodes a visit goes through after its emit call, in the order of the
\* code: the fns first
children(node) ==
  CASE node.kind = "dtrace" -> node.fns \o node.dscripts
    [] node.kind = "dscript" ->
         node.fns \o << [kind |-> "globals", globals |-> node.globals] >>
                  \o node.providers
    [] node.kind = "provider" -> node.fns \o node.modules
    [] node.kind = "module" -> node.fns \o node.functions
    [] node.kind = "function" -> node.fns \o node.probes
    [] node.kind = "probe" -> node.fns

\* an activation of a visit_*: its node, what is left to visit below it,
\* is_success, how many of its children were visited, and the scope the
\* table was in when the visit began
Activation(node, is_success, scope) ==
  [node |-> node, todo |-> children(node), is_success |-> is_success,
   visited |-> 0, scope |-> scope]

Active == Last(cg_stack)
NextChild == Head(Active.todo)

VisitNext(kind) ==
  /\ ~cg_panicked
  /\ cg_result = None
  /\ cg_stack # <<>>
  /\ Active.todo # <<>>
  /\ NextChild.kind = kind

Ending(kind) ==
  /\ ~cg_panicked
  /\ cg_result = None
  /\ cg_stack # <<>>
  /\ Active.todo = <<>>
  /\ Active.node.kind = kind

\* the emitter call made in this step, and how far the visit that made it
\* had got
Logs(call, node, visited) ==
  cg_log' = Append(cg_log, [call |-> call, node |-> node, visited |-> visited])

\* `is_success &= self.visit_*(child)`: the caller goes on with its next child
resumed(stk, v) ==
  [stk EXCEPT ![Len(stk)] =
     [@ EXCEPT !.todo = Tail(@), !.is_success = @ /\ v, !.visited = @ + 1]]

\* a visit of a node with children begins: out is what its emit call left
Begins(node, out, context, scope) ==
  /\ emitter' = out.emitter
  /\ cg_panicked' = out.panicked
  /\ cg_context_name' = context
  /\ cg_stack' = IF out.panicked THEN cg_stack
                 ELSE Append(cg_stack, Activation(node, out.ans, scope))
  /\ UNCHANGED cg_result

\* a visit returns is_success to its caller
Returns_is_success(v) ==
  IF Len(cg_stack) = 1
    THEN /\ cg_stack' = <<>>
         /\ cg_result' = Some(v)
    ELSE /\ cg_stack' = resumed(Front(cg_stack), v)
         /\ UNCHANGED cg_result

\* CodeGenerator::generate: visit_dtrace up to its first child
generate ==
  /\ dtrace = None
  /\ \E d \in Dtraces :
       \E e \in Emitters(d) :
         /\ dtrace' = Some(d)
         /\ \E out \in Emits(Emitter_enter_scope(e), "emit_dtrace", s_dtrace, d) :
              Begins(d, out, s_dtrace, e.table.curr_scope)
         /\ Logs("emit_dtrace", d, 0)
  /\ UNCHANGED outside_codegen

\* CodeGenerator::visit_dtrace, after the last dscript
visit_dtrace_end ==
  /\ Ending("dtrace")
  /\ emitter' = Emitter_exit_scope(emitter)
  /\ cg_context_name' = <<>>
  /\ Returns_is_success(Active.is_success)
  /\ UNCHANGED << dtrace, cg_log, cg_panicked, outside_codegen >>

\* CodeGenerator::visit_dscript up to its first child
CodeGenerator_visit_dscript ==
  /\ VisitNext("dscript")
  /\ \E out \in Emits(Emitter_enter_scope(emitter), "emit_dscript",
                      context_with(cg_context_name, NextChild.name), NextChild) :
       Begins(NextChild, out, context_with(cg_context_name, NextChild.name),
              emitter.table.curr_scope)
  /\ Logs("emit_dscript", NextChild, 0)
  /\ UNCHANGED << dtrace, outside_codegen >>

\* the fold of visit_globals over the answers of emit_global
RECURSIVE globals_outcomes(_, _, _)
globals_outcomes(globals, context, out) ==
  IF globals = <<>> \/ out.panicked THEN { out }
  ELSE UNION { globals_outcomes(Tail(globals), context,
                                [o EXCEPT !.ans = out.ans /\ @]) :
               o \in Emits(out.emitter, "emit_global", context, Head(globals)) }

\* CodeGenerator::visit_globals, called by visit_dscript after its fns
CodeGenerator_visit_globals ==
  /\ VisitNext("globals")
  /\ \E out \in globals_outcomes(NextChild.globals, cg_context_name,
                                 Answer(emitter, TRUE)) :
       /\ emitter' = out.emitter
       /\ cg_panicked' = out.panicked
       /\ cg_stack' = IF out.panicked THEN cg_stack
                      ELSE resumed(cg_stack, out.ans)
  /\ Logs("emit_global", NextChild, Active.visited)
  /\ UNCHANGED << dtrace, cg_context_name, cg_result, outside_codegen >>

\* CodeGenerator::visit_provider up to its first child
CodeGenerator_visit_provider ==
  /\ VisitNext("provider")
  /\ \E out \in Emits(Emitter_enter_scope(emitter), "emit_provider",
                      context_with(cg_context_name, NextChild.name), NextChild) :
       Begins(NextChild, out, context_with(cg_context_name, NextChild.name),
              emitter.table.curr_scope)
  /\ Logs("emit_provider", NextChild, 0)
  /\ UNCHANGED << dtrace, outside_codegen >>

\* CodeGenerator::visit_provider, after the last module: emit_provider
\* "which will do the actual instrumentation step"
visit_provider_end ==
  /\ Ending("provider")
  /\ \E out \in Emits(emitter, "emit_provider", cg_context_name, Active.node) :
       /\ cg_panicked' = out.panicked
       /\ IF out.panicked
            THEN /\ emitter' = out.emitter
                 /\ UNCHANGED << cg_stack, cg_result, cg_context_name >>
            ELSE /\ emitter' = Emitter_exit_scope(out.emitter)
                 /\ cg_context_name' = context_without_last(cg_context_name)
                 /\ Returns_is_success(Active.is_success /\ out.ans)
  /\ Logs("emit_provider", Active.node, Active.visited)
  /\ UNCHANGED << dtrace, outside_codegen >>

\* CodeGenerator::visit_module up to its first child: no emit call
CodeGenerator_visit_module ==
  /\ VisitNext("module")
  /\ Begins(NextChild, Answer(Emitter_enter_scope(emitter), TRUE),
            context_with(cg_context_name, NextChild.name),
            emitter.table.curr_scope)
  /\ UNCHANGED << dtrace, cg_log, outside_codegen >>

\* CodeGenerator::visit_function up to its first child; the name joins
\* context_name after emit_function
CodeGenerator_visit_function ==
  /\ VisitNext("function")
  /\ \E out \in Emits(Emitter_enter_scope(emitter), "emit_function",
                      cg_context_name, NextChild) :
       Begins(NextChild, out,
              IF out.panicked THEN cg_context_name
              ELSE context_with(cg_context_name, NextChild.name),
              emitter.table.curr_scope)
  /\ Logs("emit_function", NextChild, 0)
  /\ UNCHANGED << dtrace, outside_codegen >>

\* CodeGenerator::visit_probe up to its first fn
CodeGenerator_visit_probe ==
  /\ VisitNext("probe")
  /\ \E out \in Emits(Emitter_enter_scope(emitter), "emit_probe",
                      cg_context_name, NextChild) :
       Begins(NextChild, out,
              IF out.panicked THEN cg_context_name
              ELSE context_with(cg_context_name, NextChild.name),
              emitter.table.curr_scope)
  /\ Logs("emit_probe", NextChild, 0)
  /\ UNCHANGED << dtrace, outside_codegen >>

\* the end of visit_dscript, visit_module, visit_function and visit_probe:
\* exit_scope, the last name leaves context_name, is_success is returned
Visit_end(kind) ==
  /\ emitter' = Emitter_exit_scope(emitter)
  /\ cg_context_name' = context_without_last(cg_context_name)
  /\ Returns_is_success(Active.is_success)
  /\ UNCHANGED << dtrace, cg_log, cg_panicked, outside_codegen >>

visit_dscript_end ==
  /\ Ending("dscript")
  /\ Visit_end("dscript")

visit_module_end ==
  /\ Ending("module")
  /\ Visit_end("module")

visit_function_end ==
  /\ Ending("function")
  /\ Visit_end("function")

visit_probe_end ==
  /\ Ending("probe")
  /\ Visit_end("probe")

\* CodeGenerator::visit_fn: enter_scope, emit_fn, exit_scope
CodeGenerator_visit_fn ==
  /\ VisitNext("fn")
  /\ \E out \in Emits(Emitter_enter_scope(emitter), "emit_fn",
                      cg_context_name, NextChild) :
       /\ cg_panicked' = out.panicked
       /\ IF out.panicked
            THEN /\ emitter' = out.emitter
                 /\ UNCHANGED cg_stack
            ELSE /\ emitter' = Emitter_exit_scope(out.emitter)
                 /\ cg_stack' = resumed(cg_stack, out.ans)
  /\ Logs("emit_fn", NextChild, Active.visited)
  /\ UNCHANGED << dtrace, cg_context_name, cg_result, outside_codegen >>

NextCodegen ==
  \/ generate
  \/ CodeGenerator_visit_fn
  \/ CodeGenerator_visit_dscript
  \/ CodeGenerator_visit_globals
  \/ CodeGenerator_visit_provider
  \/ CodeGenerator_visit_module
  \/ CodeGenerator_visit_function
  \/ CodeGenerator_visit_probe
  \/ visit_probe_end
  \/ visit_function_end
  \/ visit_module_end
  \/ visit_provider_end
  \/ visit_dscript_end
  \/ visit_dtrace_end

\* the driver stands still while the code is generated
InitCodegen ==
  /\ Init
  /\ tree = TreeCore
  /\ ast.global_stmts = <<>>

SpecCodegen == InitCodegen /\ [][NextCodegen]_vars

\* ---- C22
\* C22: after emit_dtrace_strcmp_fn has returned true, the `strcmp` record
\* of the symbol table has addr = Some(id), id being the function id the
\* module gave the synthesized function
C22_AddrRecorded ==
  (emitter.strcmp # None /\ emitter.strcmp[1].ret)
    => get_record(emitter.table, emitter.strcmp[1].rec_id[1]).addr
         = Some(emitter.strcmp[1].id)

\* the function was added to the module and true was returned, and the
\* record still has no address
C22_AddrStaysNone ==
  /\ emitter.strcmp # None
  /\ emitter.strcmp[1].ret
  /\ emitter.funcs = emitter.strcmp[1].id + 1
  /\ get_record(emitter.table, emitter.strcmp[1].rec_id[1]).addr = None

\* =================================================================
\* DataType and its equality (parser/types.rs)
\* =================================================================
\* enum DataType; a variant without type arguments has none
DataType(variant, ty_info, map_tys) ==
  [variant |-> variant, ty_info |-> ty_info, map_tys |-> map_tys]

Plain(variant) == DataType(variant, <<>>, <<>>)
Tuple(ty_info) == DataType("Tuple", ty_info, <<>>)
Map(key_ty, val_ty) == DataType("Map", <<>>, << key_ty, val_ty >>)

PlainTypes ==
  { Plain(v) : v \in {"I32", "U32", "Boolean", "Null", "Str", "AssumeGood"} }

\* the types compared: the plain ones, and tuples and maps of them
DataTypes ==
  PlainTypes
    \cup { Tuple(t) : t \in UNION { [1..n -> PlainTypes] : n \in 0..MaxTupleLen } }
    \cup { Map(k, v) : k \in PlainTypes, v \in PlainTypes }

\* impl PartialEq for DataType: eq
RECURSIVE DataType_eq(_, _)
DataType_eq(self, other) ==
  CASE \/ self.variant = "I32" /\ other.variant = "I32"
       \/ self.variant = "Boolean" /\ other.variant = "Boolean"
       \/ self.variant = "Null" /\ other.variant = "Null"
       \/ self.variant = "Str" /\ other.variant = "Str"
       \/ other.variant = "AssumeGood"
       \/ self.variant = "AssumeGood" -> TRUE
    [] self.variant = "Tuple" /\ other.variant = "Tuple" ->
         /\ Len(self.ty_info) = Len(other.ty_info)
         /\ \A i \in 1..Len(self.ty_info) :
              DataType_eq(self.ty_info[i], other.ty_info[i])
    [] self.variant = "Map" /\ other.variant = "Map" ->
         /\ DataType_eq(self.map_tys[1], other.map_tys[1])
         /\ DataType_eq(self.map_tys[2], other.map_tys[2])
    [] OTHER -> FALSE

\* `lhs == rhs` is evaluated for two types
DataType_eq_call ==
  /\ dt_eq = None
  /\ \E a \in DataTypes, b \in DataTypes :
       /\ dt_lhs' = Some(a)
       /\ dt_rhs' = Some(b)
       /\ dt_eq' = Some(DataType_eq(a, b))
  /\ UNCHANGED outside_datatype

NextDataType == DataType_eq_call

\* the driver stands still while the types are compared
InitDataType ==
  /\ Init
  /\ tree = TreeCore
  /\ ast.global_stmts = <<>>

SpecDataType == InitDataType /\ [][NextDataType]_vars

\* ---- C23
\* equality as it is described: one side is AssumeGood, or both are the
\* same variant with pairwise equal arguments
RECURSIVE SameType(_, _)
SameType(a, b) ==
  \/ a.variant = "AssumeGood"
  \/ b.variant = "AssumeGood"
  \/ /\ a.variant = b.variant
     /\ Len(a.ty_info) = Len(b.ty_info)
     /\ \A i \in 1..Len(a.ty_info) : SameType(a.ty_info[i], b.ty_info[i])
     /\ Len(a.map_tys) = Len(b.map_tys)
     /\ \A i \in 1..Len(a.map_tys) : SameType(a.map_tys[i], b.map_tys[i])

RECURSIVE HasU32(_)
HasU32(a) ==
  \/ a.variant = "U32"
  \/ \E i \in 1..Len(a.ty_info) : HasU32(a.ty_info[i])
  \/ \E i \in 1..Len(a.map_tys) : HasU32(a.map_tys[i])

\* C23: two DataTypes compare equal exactly when at least one of them is
\* AssumeGood or both are the same type (same variant, pairwise equal tuple
\* element types, equal map key and value types); every DataType, U32
\* included, is equal to itself
C23_EqIsSameType ==
  dt_eq # None => (dt_eq[1] <=> SameType(dt_lhs[1], dt_rhs[1]))

\* the description is met by the types U32 is no part of
C23_EqWithoutU32 ==
  (dt_eq # None /\ ~HasU32(dt_lhs[1]) /\ ~HasU32(dt_rhs[1]))
    => (dt_eq[1] <=> SameType(dt_lhs[1], dt_rhs[1]))

\* U32 is not equal to itself
C23_U32NotReflexive ==
  /\ dt_lhs = Some(Plain("U32"))
  /\ dt_rhs = Some(Plain("U32"))
  /\ dt_eq = Some(FALSE)

\* a tuple is equal to the tuple with AssumeGood in place of an element
C23_AssumeGoodInside ==
  /\ dt_lhs = Some(Tuple(<< Plain("I32"), Plain("Str") >>))
  /\ dt_rhs = Some(Tuple(<< Plain("AssumeGood"), Plain("Str") >>))
  /\ dt_eq = Some(TRUE)

\* =================================================================
\* Properties of the driver's loops (generator/instr_generator.rs)
\* =================================================================
\* what a trace entry is, with the argument of a call
Step(e) == IF e.k = "call" THEN << e.op, e.a >> ELSE << e.k, e.n >>
StepsOf(tr) == [j \in 1..Len(tr) |-> Step(tr[j])]

IsPrefix(s, t) == Len(s) <= Len(t) /\ SubSeq(t, 1, Len(s)) = s

\* what is done for an instruction of interest: its event's scope, its
\* event's compiler variables, the child, the end of the scope
EventSteps(n, ev) ==
  << << "enter_named_scope", ev >> >>
    \o [j \in 1..Len(NodeAt(n).events[ev]) |->
          << "define_compiler_var", NodeAt(n).events[ev][j] >>]
    \o (IF get_node(NodeAt(n).child) # None
          THEN << << "visit", NodeAt(n).child >>, << "ret", NodeAt(n).child >> >>
          ELSE <<>>)
    \o << << "exit_scope", "" >> >>

\* one examination of the instruction op, the first of the loop or not
IterationSteps(n, op, first) ==
  (IF first THEN <<>>
   ELSE << << "has_next_instr", "" >>, << "next_instr", "" >> >>)
    \o << << "curr_instr_type", op >> >>
    \o (IF ExpectedEventName(op) \in DOMAIN NodeAt(n).events
          THEN EventSteps(n, ExpectedEventName(op))
          ELSE <<>>)

\* the activations of visit_enter_package that are in their loop
InPackageLoop(j) ==
  /\ IsKind(stack[j].node, "ActionWithChild", "EnterPackage")
  /\ stack[j].pc \in {"loop", "child"}
  /\ stack[j].i # 0

\* C24: for each instruction of interest visit_enter_package does, in this
\* order and before it moves on, enter_named_scope(event),
\* define_compiler_var for each global of the event, the visit of the
\* child, exit_scope; the instructions are examined one after the other
\* with next_instr in between, the loop ends when has_next_instr() answers
\* false, and then the package's scope is left once
C24_PackageLoop ==
  /\ \A j \in 1..Len(stack) :
       InPackageLoop(j) =>
         /\ IsPrefix(StepsOf(stack[j].tr),
                     IterationSteps(stack[j].node, curr_instr, instr_cnt = 1))
         /\ stack[j].pc = "loop" =>
              Len(stack[j].tr) =
                Len(IterationSteps(stack[j].node, curr_instr, instr_cnt = 1))
         /\ stack[j].pc = "child" =>
              Last(stack[j].tr).k \in {"visit", "ret"}
         /\ instr_cnt > 1 => stack[j].tr[1].r = "T"
  /\ ( /\ Ended("ActionWithChild", "EnterPackage")
       /\ NodeAt(done.node).name = "bytecode" )
     => /\ StepsOf(done.tr) =
             IterationSteps(done.node, curr_instr, instr_cnt = 1)
               \o << << "has_next_instr", "" >>, << "exit_scope", "" >> >>
        /\ done.tr[Len(done.tr) - 1].r = "F"

\* the loop ended after a second instruction of interest: its event's
\* variable was defined and the child was visited for it
C24_Witness ==
  /\ Ended("ActionWithChild", "EnterPackage")
  /\ instr_cnt = 2
  /\ curr_instr = "BrIf"
  /\ Len(SelectSeq(done.tr, IsDefine)) = 1
  /\ Len(VisitsOf(done.tr)) = 1
  /\ Last(done.tr).op = "exit_scope"

\* ---- C25
\* the activations of visit_enter_probe for `before` / `after` that are
\* inside the child's visit for a probe
InProbeChild(j) ==
  /\ IsKind(stack[j].node, "ActionWithChild", "EnterProbe")
  /\ NodeAt(stack[j].node).name \in {"before", "after"}
  /\ stack[j].pc = "child"

\* curr_probe is the clone of orig, its predicate folded: fold_expr was
\* called last for that probe and left the predicate curr_probe has
IsFoldedCloneOf(orig, tr) ==
  /\ curr_probe # None
  /\ curr_probe[1].id = orig.id
  /\ curr_probe[1].mode = orig.mode
  /\ curr_probe[1].body = orig.body
  /\ IF orig.predicate = None
       THEN curr_probe[1].predicate = None
       ELSE /\ curr_probe[1].predicate # None
            /\ curr_probe[1].predicate[1] \in fold_outcomes(orig.predicate[1])
            /\ FoldsOf(tr) # <<>>
            /\ Last(FoldsOf(tr)).p = orig.id
            /\ Last(FoldsOf(tr)).a = curr_probe[1].predicate[1]

\* the indices of the probes of the list that have a predicate, in order
RECURSIVE WithPredicate(_)
WithPredicate(probes) ==
  IF probes = <<>> THEN <<>>
  ELSE (IF Head(probes).predicate # None THEN << Head(probes).id >> ELSE <<>>)
         \o WithPredicate(Tail(probes))

\* C25: for mode `before` or `after` visit_enter_probe visits the child
\* once per probe of the list at (provider, package, event, mode), in
\* increasing index order, and at each visit curr_probe is a clone of the
\* probe at that index with its predicate folded by fold_expr
C25_ProbeLoop ==
  /\ \A j \in 1..Len(stack) :
       InProbeChild(j) =>
         /\ stack[j].i < Len(get_probes_from_ast(NodeAt(stack[j].node).name))
         /\ Len(VisitsOf(stack[j].tr)) = stack[j].i + 1
         /\ IsFoldedCloneOf(
              get_probes_from_ast(NodeAt(stack[j].node).name)[stack[j].i + 1],
              stack[j].tr)
  /\ ( /\ Ended("ActionWithChild", "EnterProbe")
       /\ NodeAt(done.node).name \in {"before", "after"}
       /\ get_node(NodeAt(done.node).child) # None )
     => /\ Len(VisitsOf(done.tr)) =
             Len(get_probes_from_ast(NodeAt(done.node).name))
        /\ \A v \in 1..Len(VisitsOf(done.tr)) :
             VisitsOf(done.tr)[v].n = NodeAt(done.node).child
        /\ [q \in 1..Len(FoldsOf(done.tr)) |-> FoldsOf(done.tr)[q].p]
             = WithPredicate(get_probes_from_ast(NodeAt(done.node).name))

\* a `before` list of two probes with predicates: the child was visited
\* twice, the second time for the probe at index 1
C25_Witness ==
  /\ Ended("ActionWithChild", "EnterProbe")
  /\ NodeAt(done.node).name = "before"
  /\ Len(VisitsOf(done.tr)) = 2
  /\ Len(FoldsOf(done.tr)) = 2
  /\ curr_probe # None
  /\ curr_probe[1].id = 1
  /\ curr_probe[1].predicate = Some("false")

\* ---- C26
\* the probe of the AST curr_probe was cloned from
OriginalOf(probe) ==
  ast.probes[<< curr_provider_name, curr_package_name, curr_event_name,
                probe.mode >>][probe.id + 1]

InsideProbeChild ==
  \E j \in 1..Len(stack) :
    /\ IsKind(stack[j].node, "ActionWithChild", "EnterProbe")
    /\ stack[j].pc \in {"child", "altchild"}

\* C26: visit_enter_probe never modifies the probes of the SimpleAST; the
\* predicate is folded on a fresh clone taken for each instruction, so at
\* every instruction the probe starts from its original predicate and body
C26_AstUntouched ==
  /\ phase # "new" =>
       \A k \in DOMAIN ast.probes :
         \A i \in 1..Len(ast.probes[k]) :
           /\ ast.probes[k][i].id = i - 1
           /\ ast.probes[k][i].predicate \in {None, Some("e")}
           /\ ast.probes[k][i].body =
                (IF ast.probes[k][i].predicate = None THEN None ELSE Some("b"))
  /\ (InsideProbeChild /\ curr_probe # None) =>
       /\ curr_probe[1].body = OriginalOf(curr_probe[1]).body
       /\ IF OriginalOf(curr_probe[1]).predicate = None
            THEN curr_probe[1].predicate = None
            ELSE /\ curr_probe[1].predicate # None
                 /\ curr_probe[1].predicate[1]
                      \in fold_outcomes(OriginalOf(curr_probe[1]).predicate[1])

\* at the second instruction the probe is folded anew: its clone holds a
\* constant, the probe of the AST the expression
C26_Witness ==
  /\ InsideProbeChild
  /\ instr_cnt = 2
  /\ curr_probe # None
  /\ curr_probe[1].predicate = Some("true")
  /\ OriginalOf(curr_probe[1]).predicate = Some("e")
  /\ curr_probe[1].body = Some("b")

\* ---- C27
IsEmitProvider(l) == l.call = "emit_provider"

\* C27: visit_provider calls emitter.emit_provider for a provider only
\* after all the fns and modules of the provider were visited
C27_EmitProviderLast ==
  \A i \in 1..Len(cg_log) :
    IsEmitProvider(cg_log[i])
      => cg_log[i].visited = Len(children(cg_log[i].node))

\* the calls of emit_provider that are made after the traversal are so
C27_SecondEmitProviderLast ==
  \A i \in 1..Len(cg_log) :
    (IsEmitProvider(cg_log[i]) /\ cg_log[i].visited > 0)
      => cg_log[i].visited = Len(children(cg_log[i].node))

\* emit_provider was called for a provider none of whose fns was visited
\* yet, and again after they were
C27_EmitProviderFirst ==
  /\ Len(SelectSeq(cg_log, IsEmitProvider)) = 2
  /\ SelectSeq(cg_log, IsEmitProvider)[1].node.fns # <<>>
  /\ SelectSeq(cg_log, IsEmitProvider)[1].visited = 0
  /\ SelectSeq(cg_log, IsEmitProvider)[2].node
       = SelectSeq(cg_log, IsEmitProvider)[1].node
  /\ SelectSeq(cg_log, IsEmitProvider)[2].visited
       = Len(SelectSeq(cg_log, IsEmitProvider)[1].node.fns)

\* ---- C29
\* generate has returned, the emitter is the WasmRewritingEmitter
Generated ==
  /\ cg_result # None
  /\ emitter.kind = "WasmRewritingEmitter"

\* C29: over a run of generate with the WasmRewritingEmitter the scope
\* entries and exits are balanced, so the table is in the scope it began
\* in, and context_name is empty when generate returns
C29_ScopesBalanced ==
  Generated
    => /\ emitter.table.curr_scope = table_of(dtrace[1]).curr_scope
       /\ cg_context_name = <<>>

\* context_name is empty when generate returns
C29_ContextEmpty == cg_result # None => cg_context_name = <<>>

\* generate returned after a visit_fn, and the table is not in the scope
\* it began in
C29_ScopeLeftOpen ==
  /\ Generated
  /\ \E i \in 1..Len(cg_log) : cg_log[i].call = "emit_fn"
  /\ cg_context_name = <<>>
  /\ emitter.table.curr_scope # table_of(dtrace[1]).curr_scope

\* ---- C28
\* C28: during each visit_provider, visit_package, visit_event, visit_probe
\* and visit_fn (and visit_script) table.enter_scope is called as often as
\* table.exit_scope, also when add_* finds a duplicate and returns early;
\* so the table is in the scope it was in before the visit, and in the
\* root scope after visit_whamm
C28_ScopesBalanced ==
  /\ sym_done # None =>
       /\ sym_done[1].enters = sym_done[1].exits
       /\ sym_done[1].after = sym_done[1].before
  /\ (sym_phase = "done" /\ sym_stack # <<>>) =>
       /\ table.curr_scope = 1
       /\ sym_stack[1].enters = sym_stack[1].exits

\* the visits during which no duplicate is reported are balanced
C28_BalancedWithoutDuplicate ==
  /\ (sym_done # None /\ ~sym_done[1].is_dup) =>
       /\ sym_done[1].enters = sym_done[1].exits
       /\ sym_done[1].after = sym_done[1].before
  /\ (sym_phase = "done" /\ sym_stack # <<>> /\ ~sym_stack[1].is_dup) =>
       table.curr_scope = 1

\* the second probe of a mode in one event: add_probe returns before
\* enter_scope, visit_probe calls exit_scope and leaves the event's scope
C28_DuplicateProbeLeavesEvent ==
  /\ sym_done # None
  /\ sym_done[1].kind = "Probe"
  /\ sym_done[1].is_dup
  /\ sym_done[1].enters = 0
  /\ sym_done[1].exits = 1
  /\ table.scopes[sym_done[1].before].ty = "Event"
  /\ sym_done[1].after = table.scopes[sym_done[1].before].parent

\* ---- C30
\* the step is an add_probe call with a four-part spec whose provider part
\* matches a provider of the registry, and the call has inserted no probe
AddsNoProbe ==
  /\ add_probe_calls' = add_probe_calls + 1
  /\ probe_spec' # None
  /\ FourParts(probe_spec'[1])
  /\ \E p \in DOMAIN provided_probes : PartMatches(probe_spec'[1].provider, p)
  /\ \A t \in StoredTuples' : (InsertedAt(t, add_probe_calls + 1))' = {}

\* C30: an add_probe call whose spec inserts no probe under a matched
\* provider leaves every provider, package, event and probe that earlier
\* add_probe calls inserted into the script unchanged
C30_NoInsertKeepsScript ==
  [][ AddsNoProbe =>
        \A t \in StoredTuples :
          /\ t \in StoredTuples'
          /\ (ProbesAt(t))' = ProbesAt(t) ]_vars

\* such a call leaves what is stored under the providers its spec does not
\* match unchanged
C30_OtherProvidersKept ==
  [][ AddsNoProbe =>
        \A t \in StoredTuples :
          ~PartMatches(probe_spec'[1].provider, t[1]) =>
            /\ t \in StoredTuples'
            /\ (ProbesAt(t))' = ProbesAt(t) ]_vars
====
